---------------------------- MODULE Spec2Model ----------------------------
(***************************************************************************)
(* A model of the XPDK data plane core: the mbuf pool (src/src/memory),    *)
(* the lock-free ring buffers (src/lockfree-ringbuf), the RX queue         *)
(* (src/src/poll) and the UDP stack (src/src/udp).                          *)
(*                                                                         *)
(* Memory is modelled byte by byte: an Mbuf is a #[repr(C, align(64))]     *)
(* record, the pool keeps its freelist link in the first word of the       *)
(* record, and that word is also the `data` field.  Pointers and usize     *)
(* values are 8-byte little-endian words.                                  *)
(***************************************************************************)
EXTENDS Integers, Sequences, FiniteSets, Bags, TLC

(***************************************************************************)
(* Bounds of the model.                                                    *)
(***************************************************************************)
\* Number of mbufs of the pool (the `size` argument of MbufPool::new).
PoolSize == 3
\* Size of one data buffer (the `buf_size` argument of MbufPool::new).
BufSize == 64
\* Number of threads calling alloc and free on one pool concurrently.
NPoolThreads == 2
\* Number of alloc and free calls one thread makes.
MaxPoolCalls == 3
\* Capacity requested from the ring-buffer constructor.
RingRequested == 2
\* Width in bits of the head and tail indices (usize in the code).
IndexBits == 3
\* Producer and consumer threads on one ring, and the calls each makes.
NProducers == 2
NConsumers == 2
MaxRingCalls == 2

\* Calls one thread makes on a ring.
MaxSeqCalls == 18

\* Sockets the stack creates, results (frames or errors) the capture delivers
\* other than timeouts, and how many data
\* slots a crafted frame may name in its first eight bytes.
MaxSockets == 2
MaxFrames == 4
\* max_batch of process_rx_packets (32 in the code), scaled so that the
\* capture can deliver more frames than one call takes.
MaxBatch == 3
MaxAlias == 2
\* Width of a socket id (u16 in the code), scaled.
SocketIdBits == 2
\* create_socket calls made on a stack whose sockets are only opened, bound,
\* used for sending and closed.
MaxCreates == 5
\* Calls (recv and free) made on an RxQueue that is read directly.
MaxRxCalls == 4
\* Largest buffer of an Mbuf built on its own, and the longest slice appended.
MaxCap == 3
MaxAppend == 3
\* Buffer of the Mbuf a frame is parsed from.
ParseBufLen == 128
\* The UDP length field of a malformed frame (smaller than a UDP header).
RuntLength == 4

\* Pools the MemoryManager creates (config.pool_count).
NPools == 2
\* Calls of alloc_mbuf and free_mbuf the application makes.
MaxMmCalls == 13
\* Calls of len() the observing thread makes.
MaxCapCalls == 6
\* Calls (push, start, stop) the application makes on a queue with a worker.
MaxWorkerCalls == 5
\* Frames the capture delivers to a stack whose sockets are also closed.
MaxCloseFrames == 2
\* Calls made on a ring whose indices start just below the largest value.
MaxWrapCalls == 4
\* Calls the one producer of an SpmcRingBuffer makes: one more than the ring
\* holds, so that a slot is used a second time.
SpmcPushes == 3

MaxLenCalls == 2

\* Longest slice passed to push_batch or pop_batch, and the batch calls one
\* thread makes.
MaxBatchLen == 3
MaxBatchCalls == 5
\* Width in bits of a pool counter (usize in the code).
CounterBits == 16

(***************************************************************************)
(* 64-bit words as 8 little-endian bytes.                                  *)
(***************************************************************************)
U64(n) == <<n % 256, (n \div 256) % 256, 0, 0, 0, 0, 0, 0>>

IsSmall(w) == \A i \in 3..8 : w[i] = 0

Val(w) == w[1] + 256 * w[2]

NULL == U64(0)

Max(a, b) == IF a >= b THEN a ELSE b

Min(a, b) == IF a <= b THEN a ELSE b

RECURSIVE Pow2(_)
Pow2(n) == IF n = 0 THEN 1 ELSE 2 * Pow2(n - 1)

\* The number of values of a pool counter.
UsizeMod == Pow2(CounterBits)

(***************************************************************************)
(* Layout of Mbuf (#[repr(C, align(64))]) and of the pool's region.        *)
(***************************************************************************)
MbufSize == 64
OffData == 0
OffLen == 8
OffBufLen == 16
OffPacketType == 24
OffOffloadFlags == 28
OffTimestamp == 32
OffQueueId == 40

\* mmap returns a page-aligned address; the region starts at the first page.
PageSize == 4096
RegionBase == PageSize

\* total_memory = size * (size_of::<Mbuf>() + buf_size)
MemSize == PoolSize * (MbufSize + BufSize)

\* mbufs_ptr.add(i)
HdrAddr(i) == RegionBase + i * MbufSize

\* data_ptr.add(i * buf_size), data_ptr = memory_base.add(size * size_of::<Mbuf>())
DataSlotAddr(i) == RegionBase + PoolSize * MbufSize + i * BufSize

MbufIndices == 0..(PoolSize - 1)

MbufPtrs == {U64(HdrAddr(i)) : i \in MbufIndices}

IndexOf(ptr) == (Val(ptr) - RegionBase) \div MbufSize

\* An access of n bytes at pointer w lies within the mapped region.
Mapped(w, n) ==
    /\ IsSmall(w)
    /\ Val(w) >= RegionBase
    /\ Val(w) + n <= RegionBase + MemSize

Load(m, addr, n) == [i \in 1..n |-> m[addr - RegionBase + i - 1]]

\* The bytes bs written at addr; a byte outside the region is not stored.
Store(m, addr, bs) ==
    LET off == addr - RegionBase
        written == {a \in off..(off + Len(bs) - 1) : a \in DOMAIN m}
    IN  [a \in written |-> bs[a - off + 1]] @@ m

LoadU64(m, addr) == Load(m, addr, 8)

Zeros(n) == [i \in 1..n |-> 0]

(***************************************************************************)
(* MbufPool.                                                               *)
(***************************************************************************)
\* Mbuf::new(data, buf_len): the bytes of a fresh record.
MbufNew(data, buf_len) ==
    [k \in 1..MbufSize |->
        IF k - 1 >= OffData /\ k - 1 < OffData + 8 THEN U64(data)[k - OffData]
        ELSE IF k - 1 >= OffBufLen /\ k - 1 < OffBufLen + 8
             THEN U64(buf_len)[k - OffBufLen]
             ELSE 0]

\* The loop of MbufPool::new: record i is written, then its first word is
\* overwritten with the freelist link (the previous head).
PoolNewMem ==
    [a \in 0..(MemSize - 1) |->
        IF a < PoolSize * MbufSize
        THEN LET i == a \div MbufSize
                 k == a % MbufSize
                 free_head == IF i = 0 THEN NULL ELSE U64(HdrAddr(i - 1))
             IN  IF k < 8 THEN free_head[k + 1]
                 ELSE MbufNew(DataSlotAddr(i), BufSize)[k + 1]
        ELSE 0]

PoolNew ==
    [mem |-> PoolNewMem,
     free_list |-> U64(HdrAddr(PoolSize - 1)),
     allocated |-> PoolSize,
     available |-> PoolSize,
     peak_usage |-> 0]

\* usize::saturating_sub(1) and saturating_add(1); the upper saturation point
\* 2^64 - 1 is out of reach of a pool counter.
SatSub1(n) == IF n = 0 THEN 0 ELSE n - 1

SatAdd1(n) == n + 1

AllocMetadataNoPeak(p) == [p EXCEPT !.available = SatSub1(@)]

\* metadata.available = available.saturating_sub(1);
\* metadata.peak_usage = peak_usage.max(self.size - metadata.available)
AllocMetadata(p) ==
    LET avail == SatSub1(p.available)
    IN  [p EXCEPT !.available = avail,
                  !.peak_usage = Max(@, PoolSize - avail)]

\* free that leaves the metadata alone
FreeMetadataSkipped(p) == p

\* metadata.available = available.saturating_add(1)
FreeMetadata(p) == [p EXCEPT !.available = SatAdd1(@)]

\* Mbuf::reset: len, packet_type, offload_flags, timestamp and queue_id are
\* cleared; data and buf_len are left alone.
MbufReset(m, mbuf) ==
    LET a == Val(mbuf)
        m1 == Store(m, a + OffLen, Zeros(8))
        m2 == Store(m1, a + OffPacketType, Zeros(1))
        m3 == Store(m2, a + OffOffloadFlags, Zeros(4))
        m4 == Store(m3, a + OffTimestamp, Zeros(8))
    IN  Store(m4, a + OffQueueId, Zeros(2))

AllocNextStale(p, current_head) == p.free_list

\* let next = unsafe { *(current_head as *const *mut Mbuf) };
AllocNext(p, current_head) == LoadU64(p.mem, Val(current_head))

\* MbufPool::alloc run with no other thread in between: the compare-exchange
\* succeeds on the head just loaded.  A head that is neither null nor a
\* mapped address makes the read of `next` fault.
Alloc(p) ==
    LET current_head == p.free_list
    IN  IF current_head = NULL
        THEN [kind |-> "exhausted", mbuf |-> NULL, pool |-> p]
        ELSE IF ~Mapped(current_head, 8)
        THEN [kind |-> "fault", mbuf |-> NULL, pool |-> p]
        ELSE [kind |-> "ok", mbuf |-> current_head,
              pool |-> AllocMetadata(
                         [p EXCEPT !.free_list = AllocNext(p, current_head)])]

\* *(mbuf as *mut *mut Mbuf) = current_head
FreeLink(m, mbuf, current_head) == Store(m, Val(mbuf), current_head)

\* MbufPool::free run with no other thread in between.
Free(p, mbuf) ==
    IF mbuf = NULL THEN p
    ELSE LET m1 == MbufReset(p.mem, mbuf)
             m2 == FreeLink(m1, mbuf, p.free_list)
         IN  FreeMetadata([p EXCEPT !.mem = m2, !.free_list = mbuf])

\* usize subtraction: a negative difference wraps (release) or panics
\* (debug); -1 stands for both.
UsizeSub(a, b) == IF a >= b THEN a - b ELSE -1

\* MbufPool::stats
Stats(p) ==
    [size |-> PoolSize,
     buf_size |-> BufSize,
     allocated |-> p.allocated,
     available |-> p.available,
     in_use |-> UsizeSub(p.allocated, p.available),
     peak_usage |-> p.peak_usage]

\* The data field of an mbuf, as its holder reads it.
MbufData(p, mbuf) == LoadU64(p.mem, Val(mbuf) + OffData)

\* The mbufs reachable from the freelist head through the links, in order
\* (cut after PoolSize + 1 steps: a corrupted list may cycle).
RECURSIVE FreeListFrom(_, _, _)
FreeListFrom(p, ptr, fuel) ==
    IF fuel = 0 \/ ptr = NULL \/ ~Mapped(ptr, 8) THEN <<>>
    ELSE <<ptr>> \o FreeListFrom(p, LoadU64(p.mem, Val(ptr)), fuel - 1)

FreeList(p) == FreeListFrom(p, p.free_list, PoolSize + 1)

Range(s) == {s[i] : i \in DOMAIN s}

(***************************************************************************)
(* MemoryManager: pool_count pools, each with a region of its own.         *)
(***************************************************************************)
PoolIds == 0..(NPools - 1)

\* The regions returned by mmap are page-aligned and disjoint; pool k's
\* region starts RegionStride bytes after pool k-1's.
RegionStride == PageSize * ((MemSize + PageSize - 1) \div PageSize)

MmPoolBase(k) == RegionBase + k * RegionStride

\* The addresses of pool k's region.
MmRegion(k) == MmPoolBase(k)..(MmPoolBase(k) + MemSize - 1)

\* The Mbuf records of pool k.
MmMbufPtrs(k) == {U64(HdrAddr(i) + k * RegionStride) : i \in MbufIndices}

\* An access of n bytes at pointer w lies within some pool's region.
MmMapped(w, n) ==
    /\ IsSmall(w)
    /\ \E k \in PoolIds : Val(w) \in MmRegion(k) /\ Val(w) + n - 1 \in MmRegion(k)

\* MbufPool::new for pool k: the records and links of PoolNewMem, at pool
\* k's addresses.
MmPoolMem(k) ==
    [a \in (k * RegionStride)..(k * RegionStride + MemSize - 1) |->
        LET b == a - k * RegionStride
        IN  IF b < PoolSize * MbufSize
            THEN LET i == b \div MbufSize
                     j == b % MbufSize
                     free_head == IF i = 0 THEN NULL
                                  ELSE U64(HdrAddr(i - 1) + k * RegionStride)
                 IN  IF j < 8 THEN free_head[j + 1]
                     ELSE MbufNew(DataSlotAddr(i) + k * RegionStride,
                                  BufSize)[j + 1]
            ELSE 0]

RECURSIVE MmMemUpTo(_)
MmMemUpTo(k) == IF k = 0 THEN MmPoolMem(0) ELSE MmPoolMem(k) @@ MmMemUpTo(k - 1)

MmPoolNew(k) ==
    [free_list |-> U64(HdrAddr(PoolSize - 1) + k * RegionStride),
     allocated |-> PoolSize,
     available |-> PoolSize,
     peak_usage |-> 0]

NoMmOp == [op |-> "none", res |-> "none", mbuf |-> NULL, from |-> 0]

\* MemoryManager::new: pool_count pools of pool_size mbufs each; `out` is
\* the history of which pool handed out each mbuf the caller holds.
MmNew ==
    [mem |-> MmMemUpTo(NPools - 1),
     pools |-> [k \in PoolIds |-> MmPoolNew(k)],
     out |-> {},
     calls |-> 0,
     crashed |-> FALSE,
     last |-> NoMmOp]

\* MbufPool::alloc on pool record p over the shared address space m, run
\* with no other thread in between.  self.size - metadata.available
\* underflows when available exceeds size: a panic where overflow is
\* checked, a wrapped peak_usage where it is not.
MmPoolAlloc(m, p) ==
    LET current_head == p.free_list
    IN  IF current_head = NULL
        THEN {[kind |-> "exhausted", mbuf |-> NULL, pool |-> p]}
        ELSE IF ~MmMapped(current_head, 8)
        THEN {[kind |-> "fault", mbuf |-> NULL, pool |-> p]}
        ELSE LET q == [p EXCEPT !.free_list = LoadU64(m, Val(current_head)),
                                !.available = SatSub1(@)]
             IN  IF q.available <= PoolSize
                 THEN {[kind |-> "ok", mbuf |-> current_head,
                        pool |-> [q EXCEPT !.peak_usage =
                                      Max(@, PoolSize - q.available)]]}
                 ELSE {[kind |-> "panic", mbuf |-> NULL, pool |-> q],
                       [kind |-> "ok", mbuf |-> current_head,
                        pool |-> [q EXCEPT !.peak_usage =
                                      Max(@, (PoolSize - q.available)
                                             % UsizeMod)]]}

\* MbufPool::free on pool record p over the shared address space m.
MmPoolFree(m, p, mbuf) ==
    IF mbuf = NULL THEN [mem |-> m, pool |-> p]
    ELSE [mem |-> FreeLink(MbufReset(m, mbuf), mbuf, p.free_list),
          pool |-> FreeMetadata([p EXCEPT !.free_list = mbuf])]

\* for pool in &self.pools { match pool.alloc() { Ok(mbuf) => return Ok(mbuf),
\* Err(_) => continue } }: the outcomes of pools k, k+1, ... tried in order.
RECURSIVE AllocMbufFrom(_, _)
AllocMbufFrom(M, k) ==
    IF k = NPools THEN {[kind |-> "exhausted", mbuf |-> NULL, from |-> 0,
                         pools |-> M.pools]}
    ELSE UNION {IF r.kind = "exhausted"
                THEN AllocMbufFrom(M, k + 1)
                ELSE {[kind |-> r.kind, mbuf |-> r.mbuf, from |-> k,
                       pools |-> [M.pools EXCEPT ![k] = r.pool]]}
                : r \in MmPoolAlloc(M.mem, M.pools[k])}

\* The mbufs reachable from pool k's freelist head, in order (cut after
\* fuel steps: a list may cycle).
RECURSIVE MmFreeListFrom(_, _, _)
MmFreeListFrom(m, ptr, fuel) ==
    IF fuel = 0 \/ ptr = NULL \/ ~MmMapped(ptr, 8) THEN <<>>
    ELSE <<ptr>> \o MmFreeListFrom(m, LoadU64(m, Val(ptr)), fuel - 1)

(***************************************************************************)
(* Ring buffers (lockfree-ringbuf).                                        *)
(***************************************************************************)
RECURSIVE BitAnd(_, _)
BitAnd(a, b) ==
    IF a = 0 \/ b = 0 THEN 0
    ELSE (a % 2) * (b % 2) + 2 * BitAnd(a \div 2, b \div 2)

IndexMod == Pow2(IndexBits)

\* usize::wrapping_add and usize::wrapping_sub
WrapAdd(a, n) == (a + n) % IndexMod

WrapSub(a, b) == (a - b + IndexMod) % IndexMod

RECURSIVE PowerOfTwoFrom(_, _)
PowerOfTwoFrom(p, n) == IF p >= n THEN p ELSE PowerOfTwoFrom(2 * p, n)

\* usize::is_power_of_two / usize::next_power_of_two in RingBufferStorage::new
NextPowerOfTwo(n) == PowerOfTwoFrom(1, n)

Capacity == NextPowerOfTwo(RingRequested)

\* mask: capacity - 1
Mask == Capacity - 1

\* What an uninitialized slot holds (Vec::with_capacity followed by set_len).
Uninit == -1

\* The values the threads push, and every value a slot of type T may hold.
PushValue(t, k) == 10 * t + k

SeqValues == {1, 2}

Values == SeqValues \cup {0} \cup {PushValue(t, k) : t \in 1..NProducers, k \in 1..MaxRingCalls}

\* RingBufferStorage::new together with the head and tail of the constructors
RingNew ==
    [head |-> 0, tail |-> 0, slots |-> [i \in 0..(Capacity - 1) |-> Uninit]]

\* index & self.mask
SlotIndex(index) == BitAnd(index, Mask)

StorageReadNext(r, index) ==
    IF r.slots[BitAnd(index + 1, Mask)] = Uninit THEN Values
    ELSE {r.slots[BitAnd(index + 1, Mask)]}

\* RingBufferStorage::read: the slots a read of index may return.  Reading
\* a slot that was never written yields whatever the memory holds.
StorageRead(r, index) ==
    IF r.slots[SlotIndex(index)] = Uninit THEN Values
    ELSE {r.slots[SlotIndex(index)]}

\* RingBufferStorage::write
StorageWrite(r, index, value) ==
    [r EXCEPT !.slots[SlotIndex(index)] = value]

IsFullLate(tail, head) == WrapSub(tail, head) > Capacity

\* tail.wrapping_sub(head) >= self.storage.capacity()
IsFull(tail, head) == WrapSub(tail, head) >= Capacity

\* len(): tail.wrapping_sub(head)
RingLen(r) == WrapSub(r.tail, r.head)

(***************************************************************************)
(* Frames, the receive queue and the UDP packet view.                      *)
(***************************************************************************)
\* size_of::<EthernetHeader>(), size_of::<Ipv4Header>(), size_of::<UdpHeader>()
EthHdrLen == 14
Ipv4HdrLen == 20
UdpHdrLen == 8

\* Byte offsets of the fields the parser reads (all structs are packed).
EthTypeOff == 12
IpProtocolOff == 9
IpSrcAddrOff == 12
IpDstAddrOff == 16
UdpDstPortOff == 2
UdpLengthOff == 4

EtherTypeIpv4 == 2048
EtherTypeArp == 2054
ProtoUdp == 17
ProtoTcp == 6
\* version_ihl & 0x0F
MaxIhl == 15

\* u16::to_be / u16::from_be on a little-endian host
U16BE(n) == <<n \div 256, n % 256>>

FromBE(b) == 256 * b[1] + b[2]

\* u16 in memory (native byte order)
U16LE(n) == <<n % 256, n \div 256>>

\* The local ports of the sockets and the destination ports of the frames.
Ports == {53, 8080}

\* First eight bytes of a frame (destination MAC and the first two bytes of
\* the source MAC).  OrdinaryMac is a unicast pair of addresses; the others
\* are frames whose first eight bytes, read as a little-endian word, are the
\* address of a data slot of the pool.
OrdinaryMac == <<2, 0, 0, 0, 0, 1, 2, 0>>

FrameHeads == {OrdinaryMac} \cup {U64(DataSlotAddr(i)) : i \in 0..(MaxAlias - 1)}

\* EthernetHeader::new, Ipv4Header::new and UdpHeader::new laid out as the
\* bytes of a frame carrying no payload.
Frame(first8, ether_type, protocol, dst_port) ==
    first8 \o <<0, 0, 0, 2>> \o U16BE(ether_type)
    \o <<69, 0>> \o U16BE(Ipv4HdrLen + UdpHdrLen) \o <<0, 0, 0, 0>>
    \o <<64, protocol, 0, 0>> \o <<10, 0, 0, 1>> \o <<10, 0, 0, 2>>
    \o U16BE(4000) \o U16BE(dst_port) \o U16BE(UdpHdrLen) \o <<0, 0>>

\* A UDP frame whose length field is smaller than the UDP header.
RuntFrame(dst_port) ==
    [Frame(OrdinaryMac, EtherTypeIpv4, ProtoUdp, dst_port)
        EXCEPT ![EthHdrLen + Ipv4HdrLen + UdpLengthOff + 2] = RuntLength]

\* The frames the capture may deliver: UDP for each port, an ARP frame and
\* a UDP frame with a length field of RuntLength.
Frames ==
    {Frame(h, EtherTypeIpv4, ProtoUdp, p) : h \in FrameHeads, p \in Ports}
    \cup {Frame(OrdinaryMac, EtherTypeArp, 0, 0)}
    \cup {RuntFrame(CHOOSE p \in Ports : \A q \in Ports : p <= q)}

\* packet.header.ts as nanoseconds, and the id of the receive queue
RxTimestamp == U64(1000)
RxQueueId == 1

\* a usize read from memory compared with a small number
WordLess(w, n) == IsSmall(w) /\ Val(w) < n

\* RxQueue::recv once capture.next_packet() has returned frame
RxRecv(p, frame) ==
    LET a == CHOOSE x \in {Alloc(p)} : TRUE IN
    IF a.kind # "ok" THEN [kind |-> a.kind, mbuf |-> NULL, pool |-> a.pool]
    ELSE IF ~Mapped(a.mbuf, OffQueueId + 2)
    THEN [kind |-> "fault", mbuf |-> a.mbuf, pool |-> a.pool]
    ELSE
    LET mbuf == Val(a.mbuf)
        data_len == Len(frame)
        buf_len == LoadU64(a.pool.mem, mbuf + OffBufLen)
        data == LoadU64(a.pool.mem, mbuf + OffData)
    IN  IF WordLess(buf_len, data_len)
        THEN [kind |-> "toolarge", mbuf |-> a.mbuf,
              pool |-> Free(a.pool, a.mbuf)]
        ELSE IF ~Mapped(data, data_len)
        THEN [kind |-> "fault", mbuf |-> a.mbuf, pool |-> a.pool]
        ELSE
        LET m1 == Store(a.pool.mem, Val(data), frame)
            m2 == Store(m1, mbuf + OffLen, U64(data_len))
            m3 == Store(m2, mbuf + OffTimestamp, RxTimestamp)
            m4 == Store(m3, mbuf + OffQueueId, U16LE(RxQueueId))
        IN  [kind |-> "ok", mbuf |-> a.mbuf, pool |-> [a.pool EXCEPT !.mem = m4]]

\* Err(Error::NetworkError(why)) of from_mbuf
ParseErr(why) ==
    [res |-> "Err", err |-> why, eth_offset |-> 0, ip_offset |-> 0,
     udp_offset |-> 0, payload_offset |-> 0, dst_port |-> 0, length |-> 0]

ParseFault ==
    [res |-> "fault", err |-> "none", eth_offset |-> 0, ip_offset |-> 0,
     udp_offset |-> 0, payload_offset |-> 0, dst_port |-> 0, length |-> 0]

\* the ether_type field read in the byte order of the host
EtherTypeNative(m, data) ==
    LET b == Load(m, Val(data) + EthTypeOff, 2) IN b[1] + 256 * b[2]

\* eth_header.ether_type(): u16::from_be of the field
EtherType(m, data) == FromBE(Load(m, Val(data) + EthTypeOff, 2))

\* UdpPacket::from_mbuf followed by the reads of dst_addr().port() and of
\* udp_header().length(); mbuf is a mapped, non-null pointer.
FromMbuf(m, mbuf) ==
    LET data == LoadU64(m, Val(mbuf) + OffData)
        len == LoadU64(m, Val(mbuf) + OffLen)
        ip_offset == EthHdrLen
    IN
    IF WordLess(len, EthHdrLen) THEN ParseErr("TooSmallForEthernet")
    ELSE IF ~Mapped(data, EthHdrLen) THEN ParseFault
    ELSE IF EtherType(m, data) # EtherTypeIpv4 THEN ParseErr("NotIpv4")
    ELSE IF WordLess(len, ip_offset + Ipv4HdrLen)
    THEN ParseErr("TooSmallForIpv4")
    ELSE IF ~Mapped(data, ip_offset + Ipv4HdrLen) THEN ParseFault
    ELSE IF Load(m, Val(data) + ip_offset + IpProtocolOff, 1)[1] # ProtoUdp
    THEN ParseErr("NotUdp")
    ELSE
    LET ihl == Load(m, Val(data) + ip_offset, 1)[1] % 16
        udp_offset == ip_offset + ihl * 4
    IN  IF WordLess(len, udp_offset + UdpHdrLen) THEN ParseErr("TooSmallForUdp")
        ELSE IF ~Mapped(data, udp_offset + UdpHdrLen) THEN ParseFault
        ELSE [res |-> "Ok", err |-> "none", eth_offset |-> 0,
              ip_offset |-> ip_offset, udp_offset |-> udp_offset,
              payload_offset |-> udp_offset + UdpHdrLen,
              dst_port |-> FromBE(Load(m, Val(data) + udp_offset
                                            + UdpDstPortOff, 2)),
              length |-> FromBE(Load(m, Val(data) + udp_offset
                                          + UdpLengthOff, 2))]

\* UdpPacket::payload().len() for a packet whose length field is at least
\* the UDP header size: the payload, or nothing when it would end beyond
\* the mbuf's data.
PayloadLen(m, mbuf, packet) ==
    LET len == LoadU64(m, Val(mbuf) + OffLen)
        payload_len == packet.length - UdpHdrLen
    IN  IF WordLess(len, packet.udp_offset + UdpHdrLen + payload_len)
        THEN 0
        ELSE payload_len

VARIABLES
    pool,        \* the MbufPool: memory, freelist head, metadata
    held,        \* the mbufs the application holds, in the order obtained
    lastOp,      \* the last pool call made and what it returned
    maxInUse,    \* history: the largest number of mbufs in use so far
    sawExhausted, \* history: an alloc has failed before
    pt,          \* per pool thread: position in alloc/free, locals, mbufs held
    kind,        \* the ring-buffer variant in use
    ring,        \* the ring buffer: head, tail and the slot array
    rt,          \* per ring thread: position in push/pop and locals
    pushed,      \* history: the bag of values accepted by successful pushes
    popped,      \* history: the bag of values returned by successful pops
    fifo,        \* history: accepted values not yet popped, oldest first
    lastRing,    \* the last ring call completed and what it returned
    udp,         \* the UdpStack, its sockets, the RxQueue and the pump
    lastUdp,     \* the last packet handled or socket call, and its outcome
    mm,          \* the MemoryManager: its pools, their memory, mbufs handed out
    obs,         \* a thread calling len() on the ring: position and locals
    enq,         \* history: per socket, the frames enqueued and not yet received
    rxq,         \* an RxQueue read directly: its statistics and the mbufs returned
    mb           \* an Mbuf built with Mbuf::new over its own buffer, and its packet view

poolSeqVars == <<held, lastOp, maxInUse, sawExhausted>>

ringVars == <<kind, ring, rt, pushed, popped, fifo, lastRing>>

udpVars == <<udp, lastUdp>>

nonPoolVars == <<ringVars, udpVars, mm, obs, enq, rxq, mb>>

nonRingVars == <<pool, poolSeqVars, pt, udpVars, mm, obs, enq, rxq, mb>>

vars ==
    <<pool, held, lastOp, maxInUse, sawExhausted, pt, ringVars, udpVars, mm, obs,
      enq, rxq, mb>>

PoolThreads == 1..NPoolThreads

PtIdle ==
    [t \in PoolThreads |->
        [pc |-> "idle", current_head |-> NULL, next |-> NULL, mbuf |-> NULL,
         tmp |-> 0, holds |-> {}, calls |-> 0]]

Producers == 1..NProducers

Consumers == (NProducers + 1)..(NProducers + NConsumers)

RingThreads == Producers \cup Consumers

RtIdle ==
    [t \in RingThreads |->
        [pc |-> "idle", head |-> 0, tail |-> 0, value |-> 0, calls |-> 0]]

NoRingOp == [op |-> "none", res |-> "none", value |-> 0, expected |-> 0]


PumpIdle == [active |-> FALSE, iter |-> 0, processed |-> 0, result |-> "none"]

\* UdpStack::new, with the RxQueue and the capture it reads
UdpNew ==
    [sockets |-> <<>>,
     next_socket_id |-> 1,
     total_sockets |-> 0,
     active_sockets |-> 0,
     total_packets_received |-> 0,
     total_errors |-> 0,
     rx_packets_received |-> 0,
     rx_errors |-> 0,
     tx_packets_sent |-> 0,
     tx_bytes_sent |-> 0,
     tx_errors |-> 0,
     pump |-> PumpIdle,
     frames |-> 0,
     crashed |-> FALSE]

NoUdpOp ==
    [op |-> "none", outcome |-> "none", sock |-> 0, mbuf |-> NULL, port |-> 0,
     availBefore |-> 0, socketsBefore |-> <<>>, errorsBefore |-> 0,
     processed |-> 0, taken |-> 0, base |-> 0, stopped |-> <<>>]

\* The UDP part of the state of a specification that uses no stack.
UdpIdle ==
    /\ udp = UdpNew
    /\ lastUdp = NoUdpOp
    /\ enq = <<>>

\* The memory-manager part of the state of a specification that uses none.
MmIdle == mm = MmNew

ObsNew == [pc |-> "idle", tail |-> 0, calls |-> 0, result |-> 0]

\* No thread calls len().
ObsIdle == obs = ObsNew

NoRxOp == [op |-> "none", outcome |-> "none", mbuf |-> NULL, len |-> 0]

\* RxQueue::new: RxQueueStats::default(), with the mbufs recv has returned
RxqNew ==
    [packets_received |-> 0, bytes_received |-> 0, errors |-> 0,
     returned |-> {}, calls |-> 0, crashed |-> FALSE, last |-> NoRxOp]

\* The state of a specification in which nothing reads an RxQueue directly.
RxqIdle == rxq = RxqNew

\* No packet view has been made.
NoPacket == [ParseFault EXCEPT !.res = "none"]

NoMbOp == [op |-> "none", res |-> "none", out |-> <<>>]

\* No Mbuf has been built.
MbNone == [mem |-> <<>>, frame |-> <<>>, packet |-> NoPacket, last |-> NoMbOp]

\* The state of a specification that builds no Mbuf of its own.
MbIdle == mb = MbNone

\* The ring part of the state of a specification that uses no ring.
RingIdle ==
    /\ kind = "none"
    /\ ring = RingNew
    /\ rt = RtIdle
    /\ pushed = EmptyBag
    /\ popped = EmptyBag
    /\ fifo = <<>>
    /\ lastRing = NoRingOp

NoOp == [op |-> "none", kind |-> "none", mbuf |-> NULL, data |-> NULL,
         heldBefore |-> {}, poolBefore |-> PoolNew]

\* The pool part of the state of a specification that uses no pool.
PoolIdle ==
    /\ pool = PoolNew
    /\ held = <<>>
    /\ lastOp = NoOp
    /\ maxInUse = 0
    /\ sawExhausted = FALSE
    /\ pt = PtIdle

(***************************************************************************)
(* The pool used by one thread: alloc and free calls one after another.    *)
(***************************************************************************)
PoolSeqInit ==
    /\ pool = PoolNew
    /\ held = <<>>
    /\ lastOp = NoOp
    /\ maxInUse = 0
    /\ sawExhausted = FALSE
    /\ pt = PtIdle
    /\ RingIdle
    /\ UdpIdle
    /\ MmIdle
    /\ ObsIdle
    /\ RxqIdle
    /\ MbIdle

SeqAlloc ==
    LET r == Alloc(pool)
    IN  /\ r.kind # "fault"
        /\ pool' = r.pool
        /\ held' = IF r.kind = "ok" THEN Append(held, r.mbuf) ELSE held
        /\ lastOp' = [op |-> "alloc", kind |-> r.kind, mbuf |-> r.mbuf,
                      data |-> IF r.kind = "ok" THEN MbufData(r.pool, r.mbuf)
                               ELSE NULL,
                      heldBefore |-> Range(held), poolBefore |-> pool]
        /\ maxInUse' = Max(maxInUse, Len(held'))
        /\ sawExhausted' = (sawExhausted \/ r.kind = "exhausted")
        /\ UNCHANGED <<pt, nonPoolVars>>

SeqFree ==
    \E i \in DOMAIN held :
        /\ pool' = Free(pool, held[i])
        /\ held' = [j \in 1..(Len(held) - 1) |->
                       IF j < i THEN held[j] ELSE held[j + 1]]
        /\ lastOp' = [op |-> "free", kind |-> "ok", mbuf |-> held[i],
                      data |-> NULL,
                      heldBefore |-> Range(held), poolBefore |-> pool]
        /\ UNCHANGED <<maxInUse, sawExhausted, pt, nonPoolVars>>

\* free(null) is a no-op.
SeqFreeNull ==
    /\ pool' = Free(pool, NULL)
    /\ lastOp' = [op |-> "free", kind |-> "null", mbuf |-> NULL,
                  data |-> NULL,
                  heldBefore |-> Range(held), poolBefore |-> pool]
    /\ UNCHANGED <<held, maxInUse, sawExhausted, pt, nonPoolVars>>

PoolSeqNext == SeqAlloc \/ SeqFree \/ SeqFreeNull

SpecPoolSeq == PoolSeqInit /\ [][PoolSeqNext]_vars

(***************************************************************************)
(* The pool used by several threads: every load, store and compare-        *)
(* exchange of alloc and free is a step of its own.                        *)
(***************************************************************************)
PoolConcInit ==
    /\ pool = PoolNew
    /\ held = <<>>
    /\ lastOp = NoOp
    /\ maxInUse = 0
    /\ sawExhausted = FALSE
    /\ pt = PtIdle
    /\ RingIdle
    /\ UdpIdle
    /\ MmIdle
    /\ ObsIdle
    /\ RxqIdle
    /\ MbIdle

\* alloc: let current_head = self.free_list.load(Acquire); null -> Err
AllocLoadHead(t) ==
    /\ \/ pt[t].pc = "a_load"
       \/ pt[t].pc = "idle" /\ pt[t].calls < MaxPoolCalls
    /\ LET n == IF pt[t].pc = "idle" THEN pt[t].calls + 1 ELSE pt[t].calls
       IN  IF pool.free_list = NULL
           THEN pt' = [pt EXCEPT ![t].pc = "idle", ![t].calls = n,
                                 ![t].current_head = NULL]
           ELSE pt' = [pt EXCEPT ![t].pc = "a_next", ![t].calls = n,
                                 ![t].current_head = pool.free_list]
    /\ UNCHANGED <<pool, poolSeqVars, nonPoolVars>>

\* alloc: let next = *(current_head as *const *mut Mbuf)
AllocReadNext(t) ==
    /\ pt[t].pc = "a_next"
    /\ Mapped(pt[t].current_head, 8)
    /\ pt' = [pt EXCEPT ![t].pc = "a_cas",
                        ![t].next = AllocNext(pool, pt[t].current_head)]
    /\ UNCHANGED <<pool, poolSeqVars, nonPoolVars>>

\* alloc: free_list.compare_exchange_weak(current_head, next) succeeds
AllocCasOk(t) ==
    /\ pt[t].pc = "a_cas"
    /\ pool.free_list = pt[t].current_head
    /\ pool' = [pool EXCEPT !.free_list = pt[t].next]
    /\ pt' = [pt EXCEPT ![t].pc = "a_meta", ![t].mbuf = pt[t].current_head]
    /\ UNCHANGED <<poolSeqVars, nonPoolVars>>

\* alloc: the compare-exchange fails (the head moved, or spuriously: it is
\* the weak form) and the loop starts over
AllocCasFail(t) ==
    /\ pt[t].pc = "a_cas"
    /\ pt' = [pt EXCEPT ![t].pc = "a_load"]
    /\ UNCHANGED <<pool, poolSeqVars, nonPoolVars>>

\* alloc: metadata.available is read ...
AllocMetaRead(t) ==
    /\ pt[t].pc = "a_meta"
    /\ pt' = [pt EXCEPT ![t].pc = "a_meta_wr", ![t].tmp = pool.available]
    /\ UNCHANGED <<pool, poolSeqVars, nonPoolVars>>

\* ... and written back decremented, with peak_usage; return Ok(current_head)
AllocMetaWrite(t) ==
    /\ pt[t].pc = "a_meta_wr"
    /\ pool' = AllocMetadata([pool EXCEPT !.available = pt[t].tmp])
    /\ pt' = [pt EXCEPT ![t].pc = "idle",
                        ![t].holds = @ \cup {pt[t].mbuf},
                        ![t].mbuf = NULL]
    /\ UNCHANGED <<poolSeqVars, nonPoolVars>>

\* free(mbuf) of an mbuf the thread holds: (*mbuf).reset()
FreeReset(t) ==
    /\ pt[t].pc = "idle"
    /\ pt[t].calls < MaxPoolCalls
    /\ \E mbuf \in pt[t].holds :
        /\ pool' = [pool EXCEPT !.mem = MbufReset(@, mbuf)]
        /\ pt' = [pt EXCEPT ![t].pc = "f_load", ![t].mbuf = mbuf,
                            ![t].calls = @ + 1,
                            ![t].holds = @ \ {mbuf}]
    /\ UNCHANGED <<poolSeqVars, nonPoolVars>>

\* free: let current_head = self.free_list.load(Acquire)
FreeLoadHead(t) ==
    /\ pt[t].pc = "f_load"
    /\ pt' = [pt EXCEPT ![t].pc = "f_link",
                        ![t].current_head = pool.free_list]
    /\ UNCHANGED <<pool, poolSeqVars, nonPoolVars>>

\* free: *(mbuf as *mut *mut Mbuf) = current_head
FreeWriteLink(t) ==
    /\ pt[t].pc = "f_link"
    /\ pool' = [pool EXCEPT
                  !.mem = FreeLink(@, pt[t].mbuf, pt[t].current_head)]
    /\ pt' = [pt EXCEPT ![t].pc = "f_cas"]
    /\ UNCHANGED <<poolSeqVars, nonPoolVars>>

\* free: free_list.compare_exchange_weak(current_head, mbuf) succeeds
FreeCasOk(t) ==
    /\ pt[t].pc = "f_cas"
    /\ pool.free_list = pt[t].current_head
    /\ pool' = [pool EXCEPT !.free_list = pt[t].mbuf]
    /\ pt' = [pt EXCEPT ![t].pc = "f_meta", ![t].mbuf = NULL]
    /\ UNCHANGED <<poolSeqVars, nonPoolVars>>

\* free: the compare-exchange fails and the loop starts over
FreeCasFail(t) ==
    /\ pt[t].pc = "f_cas"
    /\ pt' = [pt EXCEPT ![t].pc = "f_load"]
    /\ UNCHANGED <<pool, poolSeqVars, nonPoolVars>>

\* free: metadata.available is read ...
FreeMetaRead(t) ==
    /\ pt[t].pc = "f_meta"
    /\ pt' = [pt EXCEPT ![t].pc = "f_meta_wr", ![t].tmp = pool.available]
    /\ UNCHANGED <<pool, poolSeqVars, nonPoolVars>>

\* ... and written back incremented; return Ok(())
FreeMetaWrite(t) ==
    /\ pt[t].pc = "f_meta_wr"
    /\ pool' = FreeMetadata([pool EXCEPT !.available = pt[t].tmp])
    /\ pt' = [pt EXCEPT ![t].pc = "idle"]
    /\ UNCHANGED <<poolSeqVars, nonPoolVars>>

PoolConcNext ==
    \E t \in PoolThreads :
        \/ AllocLoadHead(t)
        \/ AllocReadNext(t)
        \/ AllocCasOk(t)
        \/ AllocCasFail(t)
        \/ AllocMetaRead(t)
        \/ AllocMetaWrite(t)
        \/ FreeReset(t)
        \/ FreeLoadHead(t)
        \/ FreeWriteLink(t)
        \/ FreeCasOk(t)
        \/ FreeCasFail(t)
        \/ FreeMetaRead(t)
        \/ FreeMetaWrite(t)

SpecPoolConc == PoolConcInit /\ [][PoolConcNext]_vars

\* The mbufs a thread owns: those it holds, the one its alloc has taken off
\* the list, and the one its free has not yet put on the list.
Owned(t) ==
    pt[t].holds \cup
    (IF pt[t].pc \in {"a_meta", "a_meta_wr", "f_load", "f_link", "f_cas"}
     THEN {pt[t].mbuf} ELSE {})

\* C2: under any interleaving of alloc and free no mbuf is owned by two
\* parties: no two callers hold the same mbuf, and no mbuf is on the
\* freelist while a caller holds it.
C2_ExclusiveOwnership ==
    /\ \A t1, t2 \in PoolThreads : t1 # t2 => Owned(t1) \cap Owned(t2) = {}
    /\ \A t \in PoolThreads : Owned(t) \cap Range(FreeList(pool)) = {}


(***************************************************************************)
(* MpmcRingBuffer with producer and consumer threads: every load,          *)
(* compare-exchange, slot write and slot read is a step of its own.        *)
(***************************************************************************)
MpmcInit ==
    /\ PoolIdle
    /\ UdpIdle
    /\ MmIdle
    /\ ObsIdle
    /\ RxqIdle
    /\ MbIdle
    /\ kind = "mpmc"
    /\ ring = RingNew
    /\ rt = RtIdle
    /\ pushed = EmptyBag
    /\ popped = EmptyBag
    /\ fifo = <<>>
    /\ lastRing = NoRingOp

\* push: let tail = self.tail.load(Relaxed), on entry and after a failed
\* compare-exchange
MpmcPushLoadTail(t) ==
    /\ \/ rt[t].pc = "p_tail"
       \/ rt[t].pc = "idle" /\ rt[t].calls < MaxRingCalls
    /\ rt' = [rt EXCEPT
                ![t].pc = "p_head",
                ![t].tail = ring.tail,
                ![t].calls = IF rt[t].pc = "idle" THEN @ + 1 ELSE @,
                ![t].value = IF rt[t].pc = "idle"
                             THEN PushValue(t, rt[t].calls + 1) ELSE @]
    /\ UNCHANGED <<kind, ring, pushed, popped, fifo, lastRing, nonRingVars>>

\* push: let head = self.head.load(Acquire); return Err(Full) when full
MpmcPushLoadHead(t) ==
    /\ rt[t].pc = "p_head"
    /\ IF IsFull(rt[t].tail, ring.head)
       THEN rt' = [rt EXCEPT ![t].pc = "idle", ![t].tail = 0, ![t].value = 0]
       ELSE rt' = [rt EXCEPT ![t].pc = "p_cas"]
    /\ UNCHANGED <<kind, ring, pushed, popped, fifo, lastRing, nonRingVars>>

MpmcPushCasInverted(t) ==
    /\ rt[t].pc = "p_cas"
    /\ ring.tail # rt[t].tail
    /\ ring' = [ring EXCEPT !.tail = WrapAdd(rt[t].tail, 1)]
    /\ rt' = [rt EXCEPT ![t].pc = "p_write"]
    /\ UNCHANGED <<kind, pushed, popped, fifo, lastRing, nonRingVars>>

\* push: tail.compare_exchange_weak(tail, tail.wrapping_add(1)) succeeds
MpmcPushCasOk(t) ==
    /\ rt[t].pc = "p_cas"
    /\ ring.tail = rt[t].tail
    /\ ring' = [ring EXCEPT !.tail = WrapAdd(rt[t].tail, 1)]
    /\ rt' = [rt EXCEPT ![t].pc = "p_write"]
    /\ UNCHANGED <<kind, pushed, popped, fifo, lastRing, nonRingVars>>

\* push: the compare-exchange fails; backoff.snooze() and loop
MpmcPushCasFail(t) ==
    /\ rt[t].pc = "p_cas"
    /\ rt' = [rt EXCEPT ![t].pc = "p_tail"]
    /\ UNCHANGED <<kind, ring, pushed, popped, fifo, lastRing, nonRingVars>>

\* push: self.storage.write(tail, value); return Ok(())
MpmcPushWrite(t) ==
    /\ rt[t].pc = "p_write"
    /\ ring' = StorageWrite(ring, rt[t].tail, rt[t].value)
    /\ rt' = [rt EXCEPT ![t].pc = "idle", ![t].tail = 0, ![t].value = 0]
    /\ pushed' = pushed (+) SetToBag({rt[t].value})
    /\ UNCHANGED <<kind, popped, fifo, lastRing, nonRingVars>>

\* pop: let head = self.head.load(Relaxed), on entry and after a failed
\* compare-exchange
MpmcPopLoadHead(t) ==
    /\ \/ rt[t].pc = "c_head"
       \/ rt[t].pc = "idle" /\ rt[t].calls < MaxRingCalls
    /\ rt' = [rt EXCEPT
                ![t].pc = "c_tail",
                ![t].head = ring.head,
                ![t].calls = IF rt[t].pc = "idle" THEN @ + 1 ELSE @]
    /\ UNCHANGED <<kind, ring, pushed, popped, fifo, lastRing, nonRingVars>>

\* pop: let tail = self.tail.load(Acquire); return Err(Empty) when equal
MpmcPopLoadTail(t) ==
    /\ rt[t].pc = "c_tail"
    /\ IF rt[t].head = ring.tail
       THEN rt' = [rt EXCEPT ![t].pc = "idle", ![t].head = 0]
       ELSE rt' = [rt EXCEPT ![t].pc = "c_cas"]
    /\ UNCHANGED <<kind, ring, pushed, popped, fifo, lastRing, nonRingVars>>

\* pop: head.compare_exchange_weak(head, head.wrapping_add(1)) succeeds
MpmcPopCasOk(t) ==
    /\ rt[t].pc = "c_cas"
    /\ ring.head = rt[t].head
    /\ ring' = [ring EXCEPT !.head = WrapAdd(rt[t].head, 1)]
    /\ rt' = [rt EXCEPT ![t].pc = "c_read"]
    /\ UNCHANGED <<kind, pushed, popped, fifo, lastRing, nonRingVars>>

\* pop: the compare-exchange fails; backoff.snooze() and loop
MpmcPopCasFail(t) ==
    /\ rt[t].pc = "c_cas"
    /\ rt' = [rt EXCEPT ![t].pc = "c_head"]
    /\ UNCHANGED <<kind, ring, pushed, popped, fifo, lastRing, nonRingVars>>

\* pop: let value = self.storage.read(head); return Ok(value)
MpmcPopRead(t) ==
    /\ rt[t].pc = "c_read"
    /\ \E v \in StorageRead(ring, rt[t].head) :
        /\ rt' = [rt EXCEPT ![t].pc = "idle", ![t].head = 0]
        /\ popped' = popped (+) SetToBag({v})
    /\ UNCHANGED <<kind, ring, pushed, fifo, lastRing, nonRingVars>>

MpmcNext ==
    \/ \E t \in Producers :
        \/ MpmcPushLoadTail(t)
        \/ MpmcPushLoadHead(t)
        \/ MpmcPushCasOk(t)
        \/ MpmcPushCasFail(t)
        \/ MpmcPushWrite(t)
    \/ \E t \in Consumers :
        \/ MpmcPopLoadHead(t)
        \/ MpmcPopLoadTail(t)
        \/ MpmcPopCasOk(t)
        \/ MpmcPopCasFail(t)
        \/ MpmcPopRead(t)

SpecMpmc == MpmcInit /\ [][MpmcNext]_vars

RingQuiescent == \A t \in RingThreads : rt[t].pc = "idle"

\* C1: with several threads pushing and several popping, once everything
\* has been consumed (no call in progress, ring empty) the bag of values
\* returned by successful pops equals the bag of values accepted by
\* successful pushes.
C1_PoppedEqualsPushed ==
    (RingQuiescent /\ ring.head = ring.tail) => popped = pushed


(***************************************************************************)
(* The four ring variants called by one thread: a call runs to its return  *)
(* with no other call in between, so a compare-exchange finds the index it *)
(* has just loaded (a spurious failure of the weak form only repeats the   *)
(* loop).                                                                  *)
(***************************************************************************)
\* MpmcRingBuffer::push
MpmcPush(r, value) ==
    IF IsFull(r.tail, r.head)
    THEN [res |-> "Full", ring |-> r]
    ELSE [res |-> "Ok",
          ring |-> StorageWrite([r EXCEPT !.tail = WrapAdd(r.tail, 1)],
                                r.tail, value)]

\* MpmcRingBuffer::pop
MpmcPop(r) ==
    IF r.head = r.tail
    THEN [res |-> "Empty", values |-> {0}, ring |-> r]
    ELSE [res |-> "Ok", values |-> StorageRead(r, r.head),
          ring |-> [r EXCEPT !.head = WrapAdd(r.head, 1)]]

\* SpmcRingBuffer::push
SpmcPush(r, value) ==
    IF IsFull(r.tail, r.head)
    THEN [res |-> "Full", ring |-> r]
    ELSE [res |-> "Ok",
          ring |-> [StorageWrite(r, r.tail, value)
                        EXCEPT !.tail = WrapAdd(r.tail, 1)]]

\* SpmcRingBuffer::pop
SpmcPop(r) ==
    IF r.head = r.tail
    THEN [res |-> "Empty", values |-> {0}, ring |-> r]
    ELSE [res |-> "Ok", values |-> StorageRead(r, r.head),
          ring |-> [r EXCEPT !.head = WrapAdd(r.head, 1)]]

\* SpscRingBuffer::push: the producer owns tail, writes the slot and
\* publishes the new tail with a release store.
SpscPush(r, value) ==
    IF IsFull(r.tail, r.head)
    THEN [res |-> "Full", ring |-> r]
    ELSE [res |-> "Ok",
          ring |-> [StorageWrite(r, r.tail, value)
                        EXCEPT !.tail = WrapAdd(r.tail, 1)]]

\* SpscRingBuffer::pop: the consumer owns head, reads the slot and
\* publishes the new head with a release store.
SpscPop(r) ==
    IF r.head = r.tail
    THEN [res |-> "Empty", values |-> {0}, ring |-> r]
    ELSE [res |-> "Ok", values |-> StorageRead(r, r.head),
          ring |-> [r EXCEPT !.head = WrapAdd(r.head, 1)]]

\* MpscRingBuffer::push: reserve the slot by advancing tail, then write it.
MpscPush(r, value) ==
    IF IsFull(r.tail, r.head)
    THEN [res |-> "Full", ring |-> r]
    ELSE [res |-> "Ok",
          ring |-> StorageWrite([r EXCEPT !.tail = WrapAdd(r.tail, 1)],
                                r.tail, value)]

\* MpscRingBuffer::pop: the consumer owns head; release store after reading.
MpscPop(r) ==
    IF r.head = r.tail
    THEN [res |-> "Empty", values |-> {0}, ring |-> r]
    ELSE [res |-> "Ok", values |-> StorageRead(r, r.head),
          ring |-> [r EXCEPT !.head = WrapAdd(r.head, 1)]]

RingKinds == {"spsc", "mpsc", "spmc", "mpmc"}

RingPush(k, r, value) ==
    CASE k = "mpmc" -> MpmcPush(r, value)
      [] k = "spmc" -> SpmcPush(r, value)
      [] k = "spsc" -> SpscPush(r, value)
      [] k = "mpsc" -> MpscPush(r, value)

RingPop(k, r) ==
    CASE k = "mpmc" -> MpmcPop(r)
      [] k = "spmc" -> SpmcPop(r)
      [] k = "spsc" -> SpscPop(r)
      [] k = "mpsc" -> MpscPop(r)

RingSeqInit ==
    /\ PoolIdle
    /\ UdpIdle
    /\ MmIdle
    /\ ObsIdle
    /\ RxqIdle
    /\ MbIdle
    /\ kind \in RingKinds
    /\ ring = RingNew
    /\ rt = RtIdle
    /\ pushed = EmptyBag
    /\ popped = EmptyBag
    /\ fifo = <<>>
    /\ lastRing = NoRingOp

\* ring.push(value); rt[1].calls counts the calls made so far
RingSeqPush ==
    /\ rt[1].calls < MaxSeqCalls
    /\ \E value \in SeqValues :
        LET out == RingPush(kind, ring, value) IN
        /\ ring' = out.ring
        /\ fifo' = IF out.res = "Ok" THEN Append(fifo, value) ELSE fifo
        /\ lastRing' = [op |-> "push", res |-> out.res, value |-> value,
                        expected |-> 0]
    /\ rt' = [rt EXCEPT ![1].calls = @ + 1]
    /\ UNCHANGED <<kind, pushed, popped, nonRingVars>>

\* ring.pop()
RingSeqPop ==
    /\ rt[1].calls < MaxSeqCalls
    /\ LET out == RingPop(kind, ring) IN
        \E v \in out.values :
            /\ ring' = out.ring
            /\ fifo' = IF out.res = "Ok" /\ fifo # <<>> THEN Tail(fifo) ELSE fifo
            /\ lastRing' = [op |-> "pop", res |-> out.res, value |-> v,
                            expected |-> IF fifo # <<>> THEN Head(fifo) ELSE -1]
    /\ rt' = [rt EXCEPT ![1].calls = @ + 1]
    /\ UNCHANGED <<kind, pushed, popped, nonRingVars>>

RingSeqNext == RingSeqPush \/ RingSeqPop

SpecRingSeq == RingSeqInit /\ [][RingSeqNext]_vars

\* C3: with no overlapping calls, for each of the four variants, a pop that
\* succeeds returns the oldest value accepted and not yet popped, and the
\* ring holds exactly the accepted values not yet popped (so after as many
\* pops as accepted pushes len is 0).
C3_PopReturnsOldest ==
    /\ (lastRing.op = "pop" /\ lastRing.res = "Ok") =>
            lastRing.value = lastRing.expected
    /\ (lastRing.op = "pop" /\ lastRing.res = "Empty") => fifo = <<>>
    /\ RingLen(ring) = Len(fifo)
    /\ \A i \in 1..Len(fifo) :
            ring.slots[SlotIndex(WrapAdd(ring.head, i - 1))] = fifo[i]

\* A pop returned the older of two different values while the newer one
\* stays in the ring, after the indices have wrapped past the index width.
C3_Witness ==
    /\ lastRing.op = "pop" /\ lastRing.res = "Ok"
    /\ Len(fifo) = 1
    /\ lastRing.value # fifo[1]
    /\ ring.tail < ring.head


(***************************************************************************)
(* UdpStack: create_socket, process_rx_packets (one step per iteration of  *)
(* its loop) and UdpSocket::recv, on one thread.  A fault is an access to  *)
(* an address outside the pool's region; it ends the process.              *)
(***************************************************************************)
UdpInit ==
    /\ PoolIdle
    /\ RingIdle
    /\ MmIdle
    /\ ObsIdle
    /\ RxqIdle
    /\ MbIdle
    /\ enq = <<>>
    /\ udp = UdpNew
    /\ lastUdp = NoUdpOp

\* UdpSocket::new: SpscRingBuffer::new(queue_size), tx_queue: None
SocketNew(port) ==
    [port |-> port, recv_queue |-> RingNew, packets_received |-> 0,
     bytes_received |-> 0, tx_queue |-> FALSE, running |-> FALSE,
     packets_sent |-> 0, bytes_sent |-> 0]

\* HashMap::insert
MapInsert(f, k, v) ==
    [x \in DOMAIN f \cup {k} |-> IF x = k THEN v ELSE f[x]]

\* next_socket_id.fetch_add(1, ..) as u16: the cast keeps the low bits
SocketId(n) == n % Pow2(SocketIdBits)

\* UdpStack::create_socket(local_addr): the stack after the call
CreateSocket(u, port) ==
    [u EXCEPT
        !.sockets = MapInsert(@, SocketId(u.next_socket_id), SocketNew(port)),
        !.next_socket_id = (@ + 1) % UsizeMod,
        !.total_sockets = (@ + 1) % UsizeMod,
        !.active_sockets = (@ + 1) % UsizeMod]

\* UdpStack::create_socket
UdpCreateSocket ==
    /\ ~udp.crashed
    /\ ~udp.pump.active
    /\ udp.next_socket_id <= MaxSockets
    /\ \E port \in Ports :
        /\ udp' = CreateSocket(udp, port)
        /\ lastUdp' = [NoUdpOp EXCEPT !.op = "create_socket", !.outcome = "Ok",
                                      !.sock = SocketId(udp.next_socket_id),
                                      !.port = port]
    /\ enq' = MapInsert(enq, SocketId(udp.next_socket_id), <<>>)
    /\ UNCHANGED <<pool, poolSeqVars, pt, ringVars, rxq, mb, mm, obs>>

\* process_rx_packets is entered: processed = 0 and the loop starts
UdpPumpStart ==
    /\ ~udp.crashed
    /\ ~udp.pump.active
    /\ udp' = [udp EXCEPT !.pump = [PumpIdle EXCEPT !.active = TRUE]]
    /\ lastUdp' = [NoUdpOp EXCEPT !.op = "pump_start",
                                  !.base = udp.total_packets_received]
    /\ UNCHANGED <<pool, poolSeqVars, pt, ringVars, rxq, mb, mm, obs, enq>>

PumpAdvanceLate(pm, counted) ==
    LET n == pm.iter + 1
        c == pm.processed + (IF counted THEN 1 ELSE 0)
    IN  IF n > MaxBatch
        THEN [active |-> FALSE, iter |-> n, processed |-> c, result |-> "Ok"]
        ELSE [pm EXCEPT !.iter = n, !.processed = c]

\* the end of an iteration that did not leave the loop: the loop exits with
\* Ok(processed) after max_batch iterations
PumpAdvance(pm, counted) ==
    LET n == pm.iter + 1
        c == pm.processed + (IF counted THEN 1 ELSE 0)
    IN  IF n >= MaxBatch
        THEN [active |-> FALSE, iter |-> n, processed |-> c, result |-> "Ok"]
        ELSE [pm EXCEPT !.iter = n, !.processed = c]

\* What the caller and the stack keep of the pump once it has returned:
\* processed and the loop counter are locals of the call.
PumpSettled(pm) ==
    IF pm.active THEN pm ELSE [pm EXCEPT !.iter = 0, !.processed = 0]

\* The record of a pump step: when the step returns from process_rx_packets
\* with Ok(n), n and the number of frames the call took from the queue.
PumpStep(rec, pm) ==
    IF pm.active THEN rec
    ELSE [rec EXCEPT !.processed = pm.processed, !.taken = pm.iter]

\* One iteration in which rx_queue.recv() gets a frame from the capture.
UdpPumpPacket ==
    /\ ~udp.crashed
    /\ udp.pump.active
    /\ udp.frames < MaxFrames
    /\ \E frame \in Frames :
        \E r \in {RxRecv(pool, frame)} :
        LET before == [NoUdpOp EXCEPT !.op = "pump", !.mbuf = r.mbuf,
                                      !.availBefore = pool.available,
                                      !.socketsBefore = udp.sockets,
                                      !.errorsBefore = udp.total_errors,
                                      !.base = lastUdp.base]
            got == [udp EXCEPT !.frames = @ + 1]
            left == [udp.pump EXCEPT !.active = FALSE]
        IN
        CASE r.kind = "fault" ->
                /\ udp' = [got EXCEPT !.crashed = TRUE]
                /\ pool' = r.pool
                /\ lastUdp' = [before EXCEPT !.outcome = "fault"]
                /\ UNCHANGED enq
          [] r.kind = "exhausted" ->
                \* self.pool.alloc()? : the pump returns the error
                /\ udp' = [got EXCEPT !.pump =
                              PumpSettled([left EXCEPT !.result = "Err"])]
                /\ pool' = r.pool
                /\ lastUdp' = PumpStep([before EXCEPT !.outcome = "exhausted"],
                                       left)
                /\ UNCHANGED enq
          [] r.kind = "toolarge" ->
                \* Error::NetworkError: the loop breaks
                /\ udp' = [got EXCEPT !.rx_errors = @ + 1,
                                      !.pump =
                              PumpSettled([left EXCEPT !.result = "Ok"])]
                /\ pool' = r.pool
                /\ lastUdp' = PumpStep([before EXCEPT !.outcome = "toolarge"],
                                       left)
                /\ UNCHANGED enq
          [] r.kind = "ok" ->
                \E packet \in {FromMbuf(r.pool.mem, r.mbuf)} :
                LET rx == [got EXCEPT !.rx_packets_received = @ + 1]
                    matching == {id \in DOMAIN udp.sockets :
                                    udp.sockets[id].port = packet.dst_port}
                    dropped == PumpAdvance(udp.pump, FALSE)
                    counted == PumpAdvance(udp.pump, TRUE)
                IN
                CASE packet.res = "fault" ->
                        /\ udp' = [rx EXCEPT !.crashed = TRUE]
                        /\ pool' = r.pool
                        /\ lastUdp' = [before EXCEPT !.outcome = "fault"]
                        /\ UNCHANGED enq
                  [] packet.res = "Err" ->
                        \* rx_queue.get_pool().free(mbuf)?
                        /\ udp' = [rx EXCEPT !.pump = PumpSettled(dropped)]
                        /\ pool' = Free(r.pool, r.mbuf)
                        /\ lastUdp' = PumpStep(
                                [before EXCEPT !.outcome = "parsefail"], dropped)
                        /\ UNCHANGED enq
                  [] packet.res = "Ok" /\ matching = {} ->
                        /\ udp' = [rx EXCEPT
                                    !.pump = PumpSettled(counted),
                                    !.total_packets_received = @ + 1]
                        /\ pool' = r.pool
                        /\ lastUdp' = PumpStep(
                                [before EXCEPT !.outcome = "nomatch",
                                               !.port = packet.dst_port],
                                counted)
                        /\ UNCHANGED enq
                  [] packet.res = "Ok" /\ matching # {} ->
                        \* self.sockets.values(): the first match in the
                        \* HashMap's iteration order
                        \E id \in matching :
                            LET out == SpscPush(udp.sockets[id].recv_queue,
                                                Val(r.mbuf))
                            IN
                            /\ udp' = [rx EXCEPT
                                    !.sockets[id].recv_queue = out.ring,
                                    !.total_errors =
                                        IF out.res = "Full" THEN @ + 1 ELSE @,
                                    !.pump = PumpSettled(counted),
                                    !.total_packets_received = @ + 1]
                            /\ pool' = r.pool
                            /\ lastUdp' = PumpStep(
                                    [before EXCEPT
                                        !.outcome = IF out.res = "Full"
                                                    THEN "full" ELSE "enqueued",
                                        !.sock = id,
                                        !.port = packet.dst_port],
                                    counted)
                            /\ enq' = IF out.res = "Full" THEN enq
                                      ELSE [enq EXCEPT ![id] = Append(@, frame)]
    /\ UNCHANGED <<poolSeqVars, pt, ringVars, rxq, mb, mm, obs>>

\* One iteration in which the capture times out: NetworkError, the loop
\* breaks and the pump returns Ok(processed).
UdpPumpTimeout ==
    /\ ~udp.crashed
    /\ udp.pump.active
    /\ LET left == [udp.pump EXCEPT !.active = FALSE, !.result = "Ok"]
       IN  /\ udp' = [udp EXCEPT !.pump = PumpSettled(left)]
           /\ lastUdp' = PumpStep([NoUdpOp EXCEPT !.op = "pump",
                                                  !.outcome = "timeout",
                                                  !.base = lastUdp.base],
                                  left)
    /\ UNCHANGED <<pool, poolSeqVars, pt, ringVars, rxq, mb, mm, obs, enq>>

\* One iteration in which the capture fails: PcapError is returned.
UdpPumpPcapError ==
    /\ ~udp.crashed
    /\ udp.pump.active
    /\ udp.frames < MaxFrames
    /\ LET left == [udp.pump EXCEPT !.active = FALSE, !.result = "Err"]
       IN  /\ udp' = [udp EXCEPT !.rx_errors = @ + 1,
                                 !.frames = @ + 1,
                                 !.pump = PumpSettled(left)]
           /\ lastUdp' = PumpStep([NoUdpOp EXCEPT !.op = "pump",
                                                  !.outcome = "pcap_error",
                                                  !.base = lastUdp.base],
                                  left)
    /\ UNCHANGED <<pool, poolSeqVars, pt, ringVars, rxq, mb, mm, obs, enq>>

\* UdpSocket::recv on socket id
UdpSocketRecv(id) ==
    /\ ~udp.crashed
    /\ ~udp.pump.active
    /\ id \in DOMAIN udp.sockets
    /\ LET out == SpscPop(udp.sockets[id].recv_queue)
           before == [NoUdpOp EXCEPT !.op = "recv", !.sock = id,
                                     !.availBefore = pool.available,
                                     !.socketsBefore = udp.sockets,
                                     !.errorsBefore = udp.total_errors]
       IN  IF out.res = "Empty"
           THEN /\ lastUdp' = [before EXCEPT !.outcome = "NoPacket"]
                /\ UNCHANGED <<udp, enq>>
           ELSE \E v \in out.values :
                \E packet \in {FromMbuf(pool.mem, U64(v))} :
                LET mbuf == U64(v)
                    popped1 == [udp EXCEPT !.sockets[id].recv_queue = out.ring]
                IN
                /\ enq' = [enq EXCEPT ![id] = Tail(@)]
                /\ CASE packet.res = "fault" ->
                        /\ udp' = [popped1 EXCEPT !.crashed = TRUE]
                        /\ lastUdp' = [before EXCEPT !.outcome = "fault",
                                                     !.mbuf = mbuf]
                  [] packet.res = "Err" ->
                        \* UdpPacket::from_mbuf(mbuf)? : the error is returned
                        /\ udp' = popped1
                        /\ lastUdp' = [before EXCEPT !.outcome = "Err",
                                                     !.mbuf = mbuf]
                  [] packet.res = "Ok" /\ packet.length < UdpHdrLen ->
                        \* payload(): length() as usize - 8 underflows and
                        \* the slice that follows panics; packets_received
                        \* has been incremented
                        /\ udp' = [popped1 EXCEPT
                                    !.sockets[id].packets_received = @ + 1,
                                    !.crashed = TRUE]
                        /\ lastUdp' = [before EXCEPT !.outcome = "panic",
                                                     !.mbuf = mbuf]
                  [] packet.res = "Ok" /\ packet.length >= UdpHdrLen ->
                        /\ udp' = [popped1 EXCEPT
                                    !.sockets[id].packets_received = @ + 1,
                                    !.sockets[id].bytes_received =
                                        @ + PayloadLen(pool.mem, mbuf, packet)]
                        /\ lastUdp' = [before EXCEPT !.outcome = "Ok",
                                                     !.mbuf = mbuf,
                                                     !.port = packet.dst_port]
    /\ UNCHANGED <<pool, poolSeqVars, pt, ringVars, rxq, mb, mm, obs>>

UdpNext ==
    \/ UdpCreateSocket
    \/ UdpPumpStart
    \/ UdpPumpPacket
    \/ UdpPumpTimeout
    \/ UdpPumpPcapError
    \/ \E id \in 1..MaxSockets : UdpSocketRecv(id)

SpecUdp == UdpInit /\ [][UdpNext]_vars


(***************************************************************************)
(* Claims about the receive path of the UDP stack.                         *)
(***************************************************************************)
\* C4: a packet the pump enqueued for port p is what the socket bound to p
\* receives: when recv on a socket takes an mbuf from its FIFO it returns a
\* packet (not an error), and the packet's destination port is the
\* socket's local port.
C4_RecvReturnsEnqueuedPacket ==
    (lastUdp.op = "recv" /\ lastUdp.outcome # "NoPacket") =>
        /\ lastUdp.outcome = "Ok"
        /\ lastUdp.port = udp.sockets[lastUdp.sock].port

\* C5: after the pump handled a packet that parses as UDP and whose
\* destination port no socket has, the pool has as many free mbufs as
\* before the packet was received.
C5_NoMatchReleasesMbuf ==
    (lastUdp.op = "pump" /\ lastUdp.outcome = "nomatch") =>
        pool.available = lastUdp.availBefore

\* C6: after the pump handled a packet whose socket's FIFO was full, the
\* drop is counted, the FIFOs are as before and the pool has as many free
\* mbufs as before the packet was received.
C6_FullDropReleasesMbuf ==
    (lastUdp.op = "pump" /\ lastUdp.outcome = "full") =>
        /\ udp.total_errors = lastUdp.errorsBefore + 1
        /\ udp.sockets = lastUdp.socketsBefore
        /\ pool.available = lastUdp.availBefore

\* C7: after the pump handled a frame that fails to parse, the mbuf is back
\* on the pool's freelist, no socket's FIFO has changed and the pool has as
\* many free mbufs as before the frame was received.
C7_ParseFailureReleasesMbuf ==
    (lastUdp.op = "pump" /\ lastUdp.outcome = "parsefail") =>
        /\ pool.free_list = lastUdp.mbuf
        /\ udp.sockets = lastUdp.socketsBefore
        /\ pool.available = lastUdp.availBefore

(***************************************************************************)
(* Claims about the pool used by one thread.                               *)
(***************************************************************************)
\* C8: the data pointer of an mbuf returned by alloc equals the data slot
\* assigned to that mbuf at pool construction.
C8_DataPointerIsDataSlot ==
    (lastOp.op = "alloc" /\ lastOp.kind = "ok") =>
        lastOp.data = U64(DataSlotAddr(IndexOf(lastOp.mbuf)))

\* C9: every stats() observation satisfies available + in_use = size, and
\* peak_usage is at least the largest in_use value reached so far.
C9_StatsInvariant ==
    LET s == Stats(pool)
    IN  /\ s.in_use \in 0..s.size
        /\ s.available + s.in_use = s.size
        /\ s.in_use = Len(held)
        /\ s.peak_usage >= maxInUse

\* C9 witness: the pool was fully in use earlier and an mbuf has been freed
\* since, so the peak lies above the current in_use.
C9_Witness ==
    /\ maxInUse = PoolSize
    /\ lastOp.op = "free" /\ lastOp.kind = "ok"
    /\ Stats(pool).in_use < Stats(pool).peak_usage

\* C10: the first N allocs succeed with N distinct mbufs, an alloc on the
\* exhausted pool fails and changes nothing, and an alloc succeeds exactly
\* when fewer than N mbufs are out (so also after one has been freed).
C10_ExhaustionAndRecovery ==
    /\ Cardinality(Range(held)) = Len(held)
    /\ lastOp.op = "alloc" =>
        /\ lastOp.kind \in {"ok", "exhausted"}
        /\ (lastOp.kind = "exhausted") <=>
               (Cardinality(lastOp.heldBefore) = PoolSize)
        /\ lastOp.kind = "ok" =>
               lastOp.mbuf \in (MbufPtrs \ lastOp.heldBefore)
        /\ lastOp.kind = "exhausted" => pool = lastOp.poolBefore

\* C10 witness: an alloc failed on the exhausted pool, one mbuf was freed,
\* and the alloc after that succeeded.
C10_Witness ==
    /\ sawExhausted
    /\ lastOp.op = "alloc" /\ lastOp.kind = "ok"
    /\ Len(held) = PoolSize

(***************************************************************************)
(* The MemoryManager used by one thread: alloc_mbuf and free_mbuf calls    *)
(* one after another, with NPools pools configured.                        *)
(***************************************************************************)
MmInit ==
    /\ PoolIdle
    /\ RingIdle
    /\ UdpIdle
    /\ ObsIdle
    /\ RxqIdle
    /\ MbIdle
    /\ mm = MmNew

\* MemoryManager::alloc_mbuf
MmAllocMbuf ==
    /\ ~mm.crashed
    /\ mm.calls < MaxMmCalls
    /\ \E r \in AllocMbufFrom(mm, 0) :
          mm' = IF r.kind = "ok"
                THEN [mm EXCEPT !.pools = r.pools,
                                !.calls = @ + 1,
                                !.out = @ \cup {[mbuf |-> r.mbuf, from |-> r.from]},
                                !.last = [op |-> "alloc_mbuf", res |-> "Ok",
                                          mbuf |-> r.mbuf, from |-> r.from]]
                ELSE IF r.kind = "exhausted"
                THEN [mm EXCEPT !.calls = @ + 1,
                                !.last = [op |-> "alloc_mbuf", res |-> "Err",
                                          mbuf |-> NULL, from |-> 0]]
                ELSE [mm EXCEPT !.pools = r.pools,
                                !.calls = @ + 1,
                                !.crashed = TRUE,
                                !.last = [op |-> "alloc_mbuf", res |-> r.kind,
                                          mbuf |-> NULL, from |-> r.from]]
    /\ UNCHANGED <<pool, poolSeqVars, pt, ringVars, rxq, mb, udpVars, obs, enq>>

\* MemoryManager::free_mbuf of an mbuf the caller holds: the mbuf goes to
\* self.pools.first().
MmFreeMbuf ==
    /\ ~mm.crashed
    /\ mm.calls < MaxMmCalls
    /\ \E h \in mm.out :
          \E r \in {MmPoolFree(mm.mem, mm.pools[0], h.mbuf)} :
              mm' = [mm EXCEPT !.mem = r.mem,
                               !.pools[0] = r.pool,
                               !.calls = @ + 1,
                               !.out = @ \ {h},
                               !.last = [op |-> "free_mbuf", res |-> "Ok",
                                         mbuf |-> h.mbuf, from |-> h.from]]
    /\ UNCHANGED <<pool, poolSeqVars, pt, ringVars, rxq, mb, udpVars, obs, enq>>

MmNext == MmAllocMbuf \/ MmFreeMbuf

SpecMm == MmInit /\ [][MmNext]_vars

MmFreeList(k) ==
    MmFreeListFrom(mm.mem, mm.pools[k].free_list, NPools * PoolSize + 1)

\* C11: every mbuf handed out by a pool lies in that pool's own region, also
\* through MemoryManager::alloc_mbuf and free_mbuf with several pools; no
\* pool's freelist holds an mbuf of another pool or more than its own
\* PoolSize mbufs.
C11_MbufStaysInItsPool ==
    /\ \A h \in mm.out : Val(h.mbuf) \in MmRegion(h.from)
    /\ \A k \in PoolIds :
          /\ Range(MmFreeList(k)) \subseteq MmMbufPtrs(k)
          /\ Len(MmFreeList(k)) <= PoolSize

(***************************************************************************)
(* len() called by one thread while a producer and a consumer push to and  *)
(* pop from the same MPMC ring.                                            *)
(***************************************************************************)
\* let tail = self.tail.load(Ordering::Relaxed);
LenLoadTail ==
    /\ obs.pc = "idle"
    /\ obs.calls < MaxLenCalls
    /\ obs' = [obs EXCEPT !.pc = "l_head", !.tail = ring.tail]
    /\ UNCHANGED <<pool, poolSeqVars, pt, ringVars, rxq, mb, udpVars, mm, enq>>

\* let head = self.head.load(Ordering::Acquire); tail.wrapping_sub(head)
LenLoadHead ==
    /\ obs.pc = "l_head"
    /\ obs' = [pc |-> "idle", tail |-> 0, calls |-> obs.calls + 1,
               result |-> WrapSub(obs.tail, ring.head)]
    /\ UNCHANGED <<pool, poolSeqVars, pt, ringVars, rxq, mb, udpVars, mm, enq>>

MpmcLenNext ==
    \/ \E t \in {1} :
        \/ MpmcPushLoadTail(t)
        \/ MpmcPushLoadHead(t)
        \/ MpmcPushCasOk(t)
        \/ MpmcPushCasFail(t)
        \/ MpmcPushWrite(t)
    \/ \E t \in {NProducers + 1} :
        \/ MpmcPopLoadHead(t)
        \/ MpmcPopLoadTail(t)
        \/ MpmcPopCasOk(t)
        \/ MpmcPopCasFail(t)
        \/ MpmcPopRead(t)
    \/ LenLoadTail
    \/ LenLoadHead

SpecMpmcLen == MpmcInit /\ [][MpmcLenNext]_vars

\* C12: every value len() returns lies between 0 and the capacity, also
\* when other threads push and pop between the two loads of len().
C12_LenWithinCapacity ==
    obs.calls > 0 => (0 <= obs.result /\ obs.result <= Capacity)

RECURSIVE WriteItems(_, _, _, _)
\* The loop of write_batch from item i on: src[i] goes to slot
\* (start_index + i) & mask (items are numbered from 1 here, from 0 in the
\* code).
WriteItems(r, start_index, src, i) ==
    IF i > Len(src) THEN r
    ELSE WriteItems(
             [r EXCEPT !.slots[BitAnd((start_index + (i - 1)) % IndexMod, Mask)]
                           = src[i]],
             start_index, src, i + 1)

\* RingBufferStorage::write_batch.  start_index + i is a plain usize
\* addition: when it passes the largest index value it panics where overflow
\* is checked (the items before that point are written) and wraps where it
\* is not.
StorageWriteBatch(r, start_index, src) ==
    {[res |-> "ok", ring |-> WriteItems(r, start_index, src, 1)]}
    \cup IF Len(src) > IndexMod - start_index
         THEN {[res |-> "panic",
                ring |-> WriteItems(r, start_index,
                                    SubSeq(src, 1, IndexMod - start_index), 1)]}
         ELSE {}

RECURSIVE ReadItemsReversed(_, _, _)
ReadItemsReversed(r, start_index, n) ==
    IF n = 0 THEN {<<>>}
    ELSE {<<v>> \o s : s \in ReadItemsReversed(r, start_index, n - 1),
                       v \in StorageRead(r, (start_index + (n - 1)) % IndexMod)}

RECURSIVE ReadItems(_, _, _)
\* The loop of read_batch: dst[i] = slot (start_index + i) & mask, for the
\* first n items; a slot never written may hold anything.
ReadItems(r, start_index, n) ==
    IF n = 0 THEN {<<>>}
    ELSE {Append(s, v) : s \in ReadItems(r, start_index, n - 1),
                         v \in StorageRead(r, (start_index + (n - 1)) % IndexMod)}

\* RingBufferStorage::read_batch, with the same plain addition as
\* write_batch.
StorageReadBatch(r, start_index, n) ==
    {[res |-> "ok", values |-> s] : s \in ReadItems(r, start_index, n)}
    \cup IF n > IndexMod - start_index
         THEN {[res |-> "panic", values |-> s] :
                   s \in ReadItems(r, start_index, IndexMod - start_index)}
         ELSE {}

BatchFull(r) == [res |-> "Full", ring |-> r]

MpmcPushBatchPartial(r, items) ==
    LET available == Capacity - WrapSub(r.tail, r.head)
    IN  IF items = <<>> THEN {[res |-> "Ok", ring |-> r]}
        ELSE IF Len(items) > available
        THEN {[res |-> "Full",
               ring |-> WriteItems([r EXCEPT !.tail = WrapAdd(@, available)],
                                   r.tail, SubSeq(items, 1, available), 1)]}
        ELSE {[res |-> "Ok",
               ring |-> WriteItems([r EXCEPT !.tail = WrapAdd(@, Len(items))],
                                   r.tail, items, 1)]}

\* MpmcRingBuffer::push_batch run with no other thread in between: the
\* compare-exchange on tail succeeds, then write_batch.
MpmcPushBatch(r, items) ==
    LET available == Capacity - WrapSub(r.tail, r.head)
    IN  IF items = <<>> THEN {[res |-> "Ok", ring |-> r]}
        ELSE IF Len(items) > available THEN {BatchFull(r)}
        ELSE {[res |-> IF w.res = "ok" THEN "Ok" ELSE "panic", ring |-> w.ring] :
                  w \in StorageWriteBatch(
                            [r EXCEPT !.tail = WrapAdd(@, Len(items))],
                            r.tail, items)}

\* SpmcRingBuffer::push_batch: write_batch, then the release store of tail.
SpmcPushBatch(r, items) ==
    LET available == Capacity - WrapSub(r.tail, r.head)
    IN  IF items = <<>> THEN {[res |-> "Ok", ring |-> r]}
        ELSE IF Len(items) > available THEN {BatchFull(r)}
        ELSE {IF w.res = "ok"
              THEN [res |-> "Ok",
                    ring |-> [w.ring EXCEPT !.tail = WrapAdd(@, Len(items))]]
              ELSE [res |-> "panic", ring |-> w.ring] :
                  w \in StorageWriteBatch(r, r.tail, items)}

\* MpmcRingBuffer::pop_batch with a buffer of n items, run with no other
\* thread in between: the compare-exchange on head succeeds, then
\* read_batch.
MpmcPopBatch(r, n) ==
    LET available == WrapSub(r.tail, r.head)
        count == Min(n, available)
    IN  IF n = 0 THEN {[res |-> "Ok", count |-> 0, values |-> <<>>, ring |-> r]}
        ELSE IF available = 0
        THEN {[res |-> "Empty", count |-> 0, values |-> <<>>, ring |-> r]}
        ELSE {[res |-> IF x.res = "ok" THEN "Ok" ELSE "panic",
               count |-> count, values |-> x.values,
               ring |-> [r EXCEPT !.head = WrapAdd(@, count)]] :
                  x \in StorageReadBatch(r, r.head, count)}

SpmcPopBatchGreedy(r, n) ==
    IF n = 0 THEN {[res |-> "Ok", count |-> 0, values |-> <<>>, ring |-> r]}
    ELSE IF WrapSub(r.tail, r.head) = 0
    THEN {[res |-> "Empty", count |-> 0, values |-> <<>>, ring |-> r]}
    ELSE {[res |-> "Ok", count |-> n, values |-> x,
           ring |-> [r EXCEPT !.head = WrapAdd(@, n)]] :
              x \in ReadItems(r, r.head, n)}

\* SpmcRingBuffer::pop_batch, run with no other thread in between.
SpmcPopBatch(r, n) ==
    LET available == WrapSub(r.tail, r.head)
        count == Min(n, available)
    IN  IF n = 0 THEN {[res |-> "Ok", count |-> 0, values |-> <<>>, ring |-> r]}
        ELSE IF available = 0
        THEN {[res |-> "Empty", count |-> 0, values |-> <<>>, ring |-> r]}
        ELSE {[res |-> IF x.res = "ok" THEN "Ok" ELSE "panic",
               count |-> count, values |-> x.values,
               ring |-> [r EXCEPT !.head = WrapAdd(@, count)]] :
                  x \in StorageReadBatch(r, r.head, count)}

\* SpscRingBuffer::push_batch: all-or-nothing; the producer writes the
\* reserved range through the storage and then publishes the new tail.
SpscPushBatch(r, items) ==
    LET available == Capacity - WrapSub(r.tail, r.head)
    IN  IF items = <<>> THEN {[res |-> "Ok", ring |-> r]}
        ELSE IF Len(items) > available THEN {BatchFull(r)}
        ELSE {IF w.res = "ok"
              THEN [res |-> "Ok",
                    ring |-> [w.ring EXCEPT !.tail = WrapAdd(@, Len(items))]]
              ELSE [res |-> "panic", ring |-> w.ring] :
                  w \in StorageWriteBatch(r, r.tail, items)}

\* SpscRingBuffer::pop_batch: up to min(n, occupancy) items are read through
\* the storage, then the consumer publishes the new head.
SpscPopBatch(r, n) ==
    LET available == WrapSub(r.tail, r.head)
        count == Min(n, available)
    IN  IF n = 0 THEN {[res |-> "Ok", count |-> 0, values |-> <<>>, ring |-> r]}
        ELSE IF available = 0
        THEN {[res |-> "Empty", count |-> 0, values |-> <<>>, ring |-> r]}
        ELSE {IF x.res = "ok"
              THEN [res |-> "Ok", count |-> count, values |-> x.values,
                    ring |-> [r EXCEPT !.head = WrapAdd(@, count)]]
              ELSE [res |-> "panic", count |-> count, values |-> x.values,
                    ring |-> r] :
                  x \in StorageReadBatch(r, r.head, count)}

\* MpscRingBuffer::push_batch: all-or-nothing; the range is reserved by
\* advancing tail in one compare-exchange and then written.
MpscPushBatch(r, items) ==
    LET available == Capacity - WrapSub(r.tail, r.head)
    IN  IF items = <<>> THEN {[res |-> "Ok", ring |-> r]}
        ELSE IF Len(items) > available THEN {BatchFull(r)}
        ELSE {[res |-> IF w.res = "ok" THEN "Ok" ELSE "panic", ring |-> w.ring] :
                  w \in StorageWriteBatch(
                            [r EXCEPT !.tail = WrapAdd(@, Len(items))],
                            r.tail, items)}

\* MpscRingBuffer::pop_batch: the single consumer reads up to
\* min(n, occupancy) items and then publishes the new head.
MpscPopBatch(r, n) ==
    LET available == WrapSub(r.tail, r.head)
        count == Min(n, available)
    IN  IF n = 0 THEN {[res |-> "Ok", count |-> 0, values |-> <<>>, ring |-> r]}
        ELSE IF available = 0
        THEN {[res |-> "Empty", count |-> 0, values |-> <<>>, ring |-> r]}
        ELSE {IF x.res = "ok"
              THEN [res |-> "Ok", count |-> count, values |-> x.values,
                    ring |-> [r EXCEPT !.head = WrapAdd(@, count)]]
              ELSE [res |-> "panic", count |-> count, values |-> x.values,
                    ring |-> r] :
                  x \in StorageReadBatch(r, r.head, count)}

RingPushBatch(k, r, items) ==
    CASE k = "mpmc" -> MpmcPushBatch(r, items)
      [] k = "spmc" -> SpmcPushBatch(r, items)
      [] k = "spsc" -> SpscPushBatch(r, items)
      [] k = "mpsc" -> MpscPushBatch(r, items)

RingPopBatch(k, r, n) ==
    CASE k = "mpmc" -> MpmcPopBatch(r, n)
      [] k = "spmc" -> SpmcPopBatch(r, n)
      [] k = "spsc" -> SpscPopBatch(r, n)
      [] k = "mpsc" -> MpscPopBatch(r, n)

\* The slices a caller passes to push_batch.
BatchItems == UNION {[1..n -> SeqValues] : n \in 0..MaxBatchLen}

\* What the call before this one was, as far as a later call's result
\* depends on it.
PrevBatch ==
    IF lastRing.op = "push_batch"
    THEN [op |-> "push_batch", res |-> lastRing.res, items |-> lastRing.items,
          onEmpty |-> lastRing.before.head = lastRing.before.tail]
    ELSE [op |-> lastRing.op, res |-> lastRing.res, items |-> <<>>,
          onEmpty |-> FALSE]

\* ring.push_batch(items)
RingBatchPush ==
    /\ rt[1].calls < MaxBatchCalls
    /\ lastRing.res # "panic"
    /\ \E items \in BatchItems :
        \E out \in RingPushBatch(kind, ring, items) :
            /\ ring' = out.ring
            /\ fifo' = IF out.res = "Ok" THEN fifo \o items ELSE fifo
            /\ lastRing' = [op |-> "push_batch", res |-> out.res,
                            items |-> items, n |-> Len(items), count |-> 0,
                            values |-> <<>>, before |-> ring,
                            prev |-> PrevBatch]
    /\ rt' = [rt EXCEPT ![1].calls = @ + 1]
    /\ UNCHANGED <<kind, pushed, popped, nonRingVars>>

\* ring.pop_batch(&mut buf) with a buffer of n items
RingBatchPop ==
    /\ rt[1].calls < MaxBatchCalls
    /\ lastRing.res # "panic"
    /\ \E n \in 0..MaxBatchLen :
        \E out \in RingPopBatch(kind, ring, n) :
            /\ ring' = out.ring
            /\ fifo' = IF out.res = "Ok"
                       THEN SubSeq(fifo, Min(out.count, Len(fifo)) + 1, Len(fifo))
                       ELSE fifo
            /\ lastRing' = [op |-> "pop_batch", res |-> out.res,
                            items |-> <<>>, n |-> n, count |-> out.count,
                            values |-> out.values, before |-> ring,
                            prev |-> PrevBatch]
    /\ rt' = [rt EXCEPT ![1].calls = @ + 1]
    /\ UNCHANGED <<kind, pushed, popped, nonRingVars>>

RingBatchNext == RingBatchPush \/ RingBatchPop

SpecRingBatch == RingSeqInit /\ [][RingBatchNext]_vars

\* The slot the k-th item of a range starting at index start lands in.
SlotOf(start, k) == (start + k - 1) % Capacity

\* C14: push_batch(items) is all-or-nothing on every variant: it returns
\* Full exactly when |items| exceeds the free space C - (tail - head), and
\* then head, tail and every slot are unchanged; otherwise all items are
\* stored in order and tail advances by exactly |items|.
C14_PushBatchAllOrNothing ==
    lastRing.op = "push_batch" =>
        LET b == lastRing.before
            items == lastRing.items
            free == Capacity - WrapSub(b.tail, b.head)
        IN  /\ lastRing.res \in {"Ok", "Full"}
            /\ lastRing.res = "Full" <=> Len(items) > free
            /\ lastRing.res = "Full" => ring = b
            /\ lastRing.res = "Ok" =>
                  /\ ring.head = b.head
                  /\ ring.tail = WrapAdd(b.tail, Len(items))
                  /\ \A k \in 1..Len(items) :
                        ring.slots[SlotOf(b.tail, k)] = items[k]
                  /\ \A s \in DOMAIN ring.slots :
                        s \notin {SlotOf(b.tail, k) : k \in 1..Len(items)}
                            => ring.slots[s] = b.slots[s]

\* A batch that fills the ring was stored across the end of the slot array.
C14_Witness ==
    /\ lastRing.op = "push_batch"
    /\ lastRing.res = "Ok"
    /\ Len(lastRing.items) = Capacity
    /\ SlotOf(lastRing.before.tail, 1) = Capacity - 1
    /\ lastRing.items[1] # lastRing.items[Capacity]

\* C15: pop_batch(out) with a non-empty out removes exactly
\* k = min(|out|, occupancy) elements, returns k and advances head by k; it
\* returns Empty only when the occupancy is zero, and then changes nothing.
C15_PopBatchCount ==
    (lastRing.op = "pop_batch" /\ lastRing.n > 0) =>
        LET b == lastRing.before
            occupancy == WrapSub(b.tail, b.head)
            k == Min(lastRing.n, occupancy)
        IN  /\ lastRing.res \in {"Ok", "Empty"}
            /\ lastRing.res = "Empty" <=> occupancy = 0
            /\ lastRing.res = "Empty" => ring = b
            /\ lastRing.res = "Ok" =>
                  /\ lastRing.count = k
                  /\ Len(lastRing.values) = k
                  /\ ring.head = WrapAdd(b.head, k)
                  /\ ring.tail = b.tail
                  /\ ring.slots = b.slots
                  /\ WrapSub(ring.tail, ring.head) = occupancy - k
                  /\ Len(fifo) = occupancy - k

\* A buffer larger than the occupancy was filled with what there was.
C15_Witness ==
    /\ lastRing.op = "pop_batch"
    /\ lastRing.res = "Ok"
    /\ lastRing.count = 1
    /\ lastRing.n > 1
    /\ ring.head = ring.tail

\* C16: after a successful push_batch(xs) onto an empty ring, a following
\* pop_batch(out) that returns k leaves in out[0..k] the first k elements of
\* xs in the same order, also when the index range wraps around the end of
\* the slot array.
C16_PopBatchReturnsPrefix ==
    (/\ lastRing.op = "pop_batch"
     /\ lastRing.res = "Ok"
     /\ lastRing.prev.op = "push_batch"
     /\ lastRing.prev.res = "Ok"
     /\ lastRing.prev.onEmpty)
    => lastRing.values = SubSeq(lastRing.prev.items, 1, lastRing.count)

\* Two different values pushed as one batch onto an empty ring at the last
\* slot came back in order.
C16_Witness ==
    /\ lastRing.op = "pop_batch"
    /\ lastRing.res = "Ok"
    /\ lastRing.prev.op = "push_batch"
    /\ lastRing.prev.res = "Ok"
    /\ lastRing.prev.onEmpty
    /\ lastRing.count = Capacity
    /\ SlotOf(lastRing.before.head, 1) = Capacity - 1
    /\ lastRing.values[1] # lastRing.values[Capacity]

\* The bytes a packet view of mbuf covers: len bytes at the mbuf's data.
PacketBytes(m, mbuf) ==
    LET data == LoadU64(m, Val(mbuf) + OffData)
        len == LoadU64(m, Val(mbuf) + OffLen)
    IN  IF IsSmall(len) /\ Mapped(data, Val(len))
        THEN Load(m, Val(data), Val(len))
        ELSE <<>>

\* C17: for each socket, successive recv calls return the packets in the
\* order in which the pump enqueued them into that socket's FIFO: every
\* packet a recv returns is the frame that was enqueued on that socket
\* longest ago and not yet received.
C17_RecvInEnqueueOrder ==
    [][\A id \in DOMAIN udp.sockets :
          (/\ lastUdp'.op = "recv"
           /\ lastUdp'.sock = id
           /\ lastUdp'.outcome = "Ok")
          => /\ enq[id] # <<>>
             /\ PacketBytes(pool.mem, lastUdp'.mbuf) = Head(enq[id])]_vars

\* C18: one call of process_rx_packets takes at most MaxBatch packets from
\* the RX queue, stops when the queue reports no packet, and returns the
\* number of packets it processed in that call, which is at most the number
\* taken; a frame that fails to parse or a no-packet condition never makes
\* the call return an error.
C18_PumpBatchLimit ==
    /\ udp.pump.iter <= MaxBatch
    /\ udp.pump.active => udp.pump.iter < MaxBatch
    /\ (lastUdp.op = "pump" /\ lastUdp.outcome \in {"timeout", "toolarge"})
           => (~udp.pump.active /\ udp.pump.result = "Ok")
    /\ (lastUdp.op = "pump" /\ lastUdp.outcome = "parsefail" /\ ~udp.pump.active)
           => udp.pump.result = "Ok"
    /\ (lastUdp.op = "pump" /\ ~udp.pump.active /\ ~udp.crashed
            /\ udp.pump.result = "Ok")
           => /\ lastUdp.taken <= MaxBatch
              /\ lastUdp.processed <= lastUdp.taken
              /\ lastUdp.processed = udp.total_packets_received - lastUdp.base
              /\ lastUdp.outcome \in {"timeout", "toolarge"}
                     \/ lastUdp.taken = MaxBatch

\* A call returned because it had taken MaxBatch frames, the last of which
\* failed to parse, and it had processed some of them.
C18_Witness ==
    /\ lastUdp.op = "pump"
    /\ lastUdp.outcome = "parsefail"
    /\ ~udp.pump.active
    /\ udp.pump.result = "Ok"
    /\ lastUdp.taken = MaxBatch
    /\ lastUdp.processed > 0
    /\ lastUdp.processed < MaxBatch
    /\ udp.frames < MaxFrames

\* C20: recv removes exactly the oldest mbuf from the socket's FIFO and
\* returns its packet view, adding 1 to packets_received and the payload
\* length to bytes_received; on an empty FIFO it returns the no-packet error
\* and changes neither the FIFO nor any counter.
C20_RecvPopsOldestAndCounts ==
    lastUdp.op = "recv" =>
        LET id == lastUdp.sock
            was == lastUdp.socketsBefore[id]
            q == was.recv_queue
            now == udp.sockets[id]
        IN  IF q.head = q.tail
            THEN /\ lastUdp.outcome = "NoPacket"
                 /\ udp.sockets = lastUdp.socketsBefore
            ELSE /\ lastUdp.outcome = "Ok"
                 /\ lastUdp.mbuf = U64(q.slots[SlotIndex(q.head)])
                 /\ now.recv_queue = [q EXCEPT !.head = WrapAdd(@, 1)]
                 /\ now.packets_received = was.packets_received + 1
                 /\ now.bytes_received = was.bytes_received
                        + PayloadLen(pool.mem, lastUdp.mbuf,
                                     FromMbuf(pool.mem, lastUdp.mbuf))
                 /\ \A other \in DOMAIN udp.sockets \ {id} :
                        udp.sockets[other] = lastUdp.socketsBefore[other]

(***************************************************************************)
(* Progress of push and pop on the MPMC ring.  Thread 1 (a producer) and   *)
(* the first consumer are scheduled fairly: each keeps taking steps, and a *)
(* compare-exchange that could succeed again and again does succeed        *)
(* (compare_exchange_weak may fail spuriously, but not forever).  The      *)
(* second producer runs with no fairness at all: it may stop anywhere,     *)
(* also between reserving a slot and writing it.                           *)
(***************************************************************************)
FairProducer == 1

FairConsumer == NProducers + 1

MpmcPushStep(t) ==
    \/ MpmcPushLoadTail(t)
    \/ MpmcPushLoadHead(t)
    \/ MpmcPushCasOk(t)
    \/ MpmcPushCasFail(t)
    \/ MpmcPushWrite(t)

MpmcPopStep(t) ==
    \/ MpmcPopLoadHead(t)
    \/ MpmcPopLoadTail(t)
    \/ MpmcPopCasOk(t)
    \/ MpmcPopCasFail(t)
    \/ MpmcPopRead(t)

MpmcLiveNext ==
    \/ \E t \in Producers : MpmcPushStep(t)
    \/ MpmcPopStep(FairConsumer)

MpmcFairness ==
    /\ WF_vars(MpmcPushStep(FairProducer))
    /\ SF_vars(MpmcPushCasOk(FairProducer))
    /\ WF_vars(MpmcPopStep(FairConsumer))
    /\ SF_vars(MpmcPopCasOk(FairConsumer))

SpecMpmcLive == MpmcInit /\ [][MpmcLiveNext]_vars /\ MpmcFairness

\* C19: push and pop never block: under fair scheduling every push and pop
\* call returns after finitely many steps, also when another thread has
\* stopped in the middle of its own operation.
C19_PushAndPopReturn ==
    \A t \in {FairProducer, FairConsumer} :
        (rt[t].pc # "idle") ~> (rt[t].pc = "idle")

\* A push is retrying after a failed compare-exchange while another
\* producer has reserved a slot and not yet written it.
C19_Witness ==
    /\ rt[FairProducer].pc = "p_tail"
    /\ \E t \in Producers \ {FairProducer} : rt[t].pc = "p_write"
    /\ rt[FairConsumer].pc = "c_cas"

(***************************************************************************)
(* The socket calls of a UdpStack on one thread: create_socket,            *)
(* close_socket, and on a socket bind_tx_queue, start and send.  No packet *)
(* is received, so the pool is never touched.                              *)
(***************************************************************************)
SockIds == 0..(Pow2(SocketIdBits) - 1)

\* The local port of the sockets created and the port sent to.
SockPorts == {CHOOSE p \in Ports : \A q \in Ports : p <= q}

\* The payloads handed to send.
SendPayloads == {<<>>, <<7, 7, 7>>}

\* UdpSocket::create_packet: "Packet creation not implemented"
CreatePacket(dst_port, data) ==
    [res |-> "Err", err |-> "PacketCreationNotImplemented", mbuf |-> NULL,
     len |-> 0]

\* TxQueue::send(mbuf) where capture.sendpacket returns sent ("Ok" or "Err")
TxQueueSend(u, mbuf, len, sent) ==
    IF mbuf = NULL THEN [res |-> "NullMbuf", udp |-> u]
    ELSE IF sent = "Ok"
    THEN [res |-> "Ok",
          udp |-> [u EXCEPT !.tx_packets_sent = (@ + 1) % UsizeMod,
                            !.tx_bytes_sent = (@ + len) % UsizeMod]]
    ELSE [res |-> "PcapError",
          udp |-> [u EXCEPT !.tx_errors = (@ + 1) % UsizeMod]]

\* send from create_packet on, once tx_queue is known to be bound
SendBound(u, id, dst_port, data, sent) ==
    LET c == CreatePacket(dst_port, data) IN
    IF c.res # "Ok" THEN [res |-> c.err, udp |-> u]
    ELSE LET t == TxQueueSend(u, c.mbuf, c.len, sent) IN
         IF t.res # "Ok" THEN t
         ELSE [res |-> "Ok",
               udp |-> [t.udp EXCEPT
                   !.sockets[id].packets_sent = (@ + 1) % UsizeMod,
                   !.sockets[id].bytes_sent = (@ + Len(data)) % UsizeMod]]

\* send without the look at tx_queue
SocketSendUnbound(u, id, dst_port, data, sent) ==
    SendBound(u, id, dst_port, data, sent)

\* UdpSocket::send(dst_addr, data) on socket id of the stack u
SocketSend(u, id, dst_port, data, sent) ==
    IF ~u.sockets[id].tx_queue THEN [res |-> "NotBound", udp |-> u]
    ELSE SendBound(u, id, dst_port, data, sent)

\* close_socket that leaves the count of active sockets alone
CloseSocketNoCount(u, id) ==
    IF id \in DOMAIN u.sockets
    THEN [u EXCEPT !.sockets = [x \in DOMAIN @ \ {id} |-> @[x]]]
    ELSE u

\* UdpStack::close_socket(socket_id): the stack after the call
CloseSocket(u, id) ==
    IF id \in DOMAIN u.sockets
    THEN [u EXCEPT !.sockets = [x \in DOMAIN @ \ {id} |-> @[x]],
                   !.active_sockets = (@ - 1) % UsizeMod]
    ELSE u

SockInit ==
    /\ PoolIdle
    /\ RingIdle
    /\ MmIdle
    /\ ObsIdle
    /\ RxqIdle
    /\ MbIdle
    /\ enq = <<>>
    /\ udp = UdpNew
    /\ lastUdp = NoUdpOp

SockCreate ==
    /\ udp.total_sockets < MaxCreates
    /\ \E port \in SockPorts :
        /\ udp' = CreateSocket(udp, port)
        /\ lastUdp' = [NoUdpOp EXCEPT !.op = "create_socket", !.outcome = "Ok",
                                      !.sock = SocketId(udp.next_socket_id),
                                      !.port = port]
    /\ UNCHANGED <<pool, poolSeqVars, pt, ringVars, rxq, mb, mm, obs, enq>>

SockClose(id) ==
    /\ udp' = CloseSocket(udp, id)
    /\ lastUdp' = [NoUdpOp EXCEPT
            !.op = "close_socket", !.outcome = "Ok", !.sock = id,
            !.stopped = IF id \in DOMAIN udp.sockets
                        THEN <<[udp.sockets[id] EXCEPT !.running = FALSE]>>
                        ELSE <<>>]
    /\ UNCHANGED <<pool, poolSeqVars, pt, ringVars, rxq, mb, mm, obs, enq>>

\* UdpSocket::bind_tx_queue
SockBindTx(id) ==
    /\ id \in DOMAIN udp.sockets
    /\ udp' = [udp EXCEPT !.sockets[id].tx_queue = TRUE]
    /\ lastUdp' = [NoUdpOp EXCEPT !.op = "bind_tx_queue", !.outcome = "Ok",
                                  !.sock = id]
    /\ UNCHANGED <<pool, poolSeqVars, pt, ringVars, rxq, mb, mm, obs, enq>>

\* UdpSocket::start
SockStart(id) ==
    /\ id \in DOMAIN udp.sockets
    /\ udp' = [udp EXCEPT !.sockets[id].running = TRUE]
    /\ lastUdp' = [NoUdpOp EXCEPT !.op = "start", !.outcome = "Ok", !.sock = id]
    /\ UNCHANGED <<pool, poolSeqVars, pt, ringVars, rxq, mb, mm, obs, enq>>

SockSend(id) ==
    /\ id \in DOMAIN udp.sockets
    /\ \E dst_port \in SockPorts, data \in SendPayloads, sent \in {"Ok", "Err"} :
        \E r \in {SocketSend(udp, id, dst_port, data, sent)} :
            /\ udp' = r.udp
            /\ lastUdp' = [NoUdpOp EXCEPT !.op = "send", !.outcome = r.res,
                                          !.sock = id, !.port = dst_port,
                                          !.taken = Len(data)]
    /\ UNCHANGED <<pool, poolSeqVars, pt, ringVars, rxq, mb, mm, obs, enq>>

SockNext ==
    \/ SockCreate
    \/ \E id \in SockIds : SockClose(id)
    \/ \E id \in SockIds : SockBindTx(id)
    \/ \E id \in SockIds : SockStart(id)
    \/ \E id \in SockIds : SockSend(id)

SpecSock == SockInit /\ [][SockNext]_vars

\* A step of SpecSock that is a send on socket id.
SendStep(id) ==
    /\ lastUdp' # lastUdp
    /\ lastUdp'.op = "send"
    /\ lastUdp'.sock = id

\* C21: send on a socket with a bound TX queue builds the frame and hands it
\* to the TX queue, so its result is that of the capture's send, and when
\* that succeeds send returns Ok with packets_sent one higher and bytes_sent
\* higher by the payload length.
C21_SendOnBoundSocket ==
    [][\A id \in DOMAIN udp.sockets :
        (SendStep(id) /\ udp.sockets[id].tx_queue) =>
            /\ lastUdp'.outcome \in {"Ok", "PcapError"}
            /\ lastUdp'.outcome = "Ok" =>
                /\ udp'.sockets[id].packets_sent
                       = udp.sockets[id].packets_sent + 1
                /\ udp'.sockets[id].bytes_sent
                       = udp.sockets[id].bytes_sent + lastUdp'.taken]_vars

\* C22: send on a socket with no bound TX queue returns the not-bound error
\* and changes neither the socket's send counters, nor any other part of the
\* stack, nor the mbuf pool.
C22_SendOnUnboundSocket ==
    [][\A id \in DOMAIN udp.sockets :
        (SendStep(id) /\ ~udp.sockets[id].tx_queue) =>
            /\ lastUdp'.outcome = "NotBound"
            /\ udp' = udp
            /\ pool' = pool]_vars

\* A send on a socket that was never bound has returned the not-bound error
\* while another socket of the stack is bound.
C22_Witness ==
    /\ lastUdp.op = "send"
    /\ lastUdp.outcome = "NotBound"
    /\ lastUdp.taken > 0
    /\ lastUdp.sock \in DOMAIN udp.sockets
    /\ ~udp.sockets[lastUdp.sock].tx_queue
    /\ \E j \in DOMAIN udp.sockets : udp.sockets[j].tx_queue

\* A step of SpecSock that is a create_socket call.
CreateStep ==
    /\ lastUdp'.op = "create_socket"
    /\ udp'.total_sockets = udp.total_sockets + 1

\* C28: every create_socket call returns an id of at least 1 that is larger
\* than every id in the table, so it adds an entry and replaces none.
C28_IdsIncreaseAndAdd ==
    [][CreateStep =>
        /\ lastUdp'.sock >= 1
        /\ \A j \in DOMAIN udp.sockets : j < lastUdp'.sock
        /\ lastUdp'.sock \notin DOMAIN udp.sockets
        /\ DOMAIN udp'.sockets = DOMAIN udp.sockets \cup {lastUdp'.sock}
        /\ \A j \in DOMAIN udp.sockets : udp'.sockets[j] = udp.sockets[j]]_vars

\* A step of SpecSock that is a close_socket(id) call.
CloseStep(id) ==
    /\ lastUdp' # lastUdp
    /\ lastUdp'.op = "close_socket"
    /\ lastUdp'.sock = id

\* C29: close_socket(id) returns Ok; for an id in the table it stops that
\* socket, removes exactly that entry and lowers active_sockets by 1, with
\* total_sockets, the id counter and every other socket unchanged; for an id
\* not in the table it changes nothing.
C29_CloseRemovesOne ==
    [][\A id \in SockIds : CloseStep(id) =>
        /\ lastUdp'.outcome = "Ok"
        /\ id \in DOMAIN udp.sockets =>
            /\ lastUdp'.stopped = <<[udp.sockets[id] EXCEPT !.running = FALSE]>>
            /\ DOMAIN udp'.sockets = DOMAIN udp.sockets \ {id}
            /\ \A j \in DOMAIN udp'.sockets : udp'.sockets[j] = udp.sockets[j]
            /\ udp'.active_sockets = udp.active_sockets - 1
            /\ udp'.total_sockets = udp.total_sockets
            /\ udp'.next_socket_id = udp.next_socket_id
        /\ id \notin DOMAIN udp.sockets => udp' = udp]_vars

\* A running socket has been closed while another stays open, and after that
\* a close of the same id has found nothing.
C29_Witness ==
    /\ lastUdp.op = "close_socket"
    /\ lastUdp.stopped = <<>>
    /\ lastUdp.sock \notin DOMAIN udp.sockets
    /\ udp.sockets # <<>>
    /\ udp.active_sockets = udp.total_sockets - 1
    /\ udp.active_sockets >= 1

(***************************************************************************)
(* An RxQueue read directly by its owner: recv, and MbufPool::free of the  *)
(* mbufs recv returned.  A fault is an access outside the pool's region.   *)
(***************************************************************************)
\* A UDP frame one byte longer than the buffer of an mbuf.
JumboFrame ==
    LET f == Frame(OrdinaryMac, EtherTypeIpv4, ProtoUdp,
                   CHOOSE p \in Ports : \A q \in Ports : p <= q)
    IN  f \o Zeros(BufSize + 1 - Len(f))

\* A frame that reads as an Mbuf record where it is stored: its first eight
\* bytes are the address of data slot 0, and its bytes 16..23 (IPv4 total
\* length, identification, flags, TTL and protocol), read as a little-endian
\* word, are the frame's own length.
RecordFrame ==
    LET f == Frame(U64(DataSlotAddr(0)), EtherTypeIpv4, 0, 0)
    IN  [k \in 1..Len(f) |->
            IF k - 1 >= OffBufLen /\ k - 1 < OffBufLen + 8
            THEN U64(Len(f))[k - OffBufLen]
            ELSE f[k]]

\* What the capture may deliver to recv.
RxFrames == Frames \cup {JumboFrame, RecordFrame}

\* RxQueue::recv when capture.next_packet() returns frame: the queue and
\* the pool after the call
RxQueueRecv(q, p, frame) ==
    LET r == RxRecv(p, frame)
        last == [op |-> "recv", outcome |-> r.kind, mbuf |-> r.mbuf,
                 len |-> Len(frame)]
        q1 == [q EXCEPT !.last = last]
    IN  [pool |-> r.pool,
         rxq |->
            CASE r.kind = "ok" ->
                    [q1 EXCEPT
                        !.packets_received = (@ + 1) % UsizeMod,
                        !.bytes_received = (@ + Len(frame)) % UsizeMod,
                        !.returned = @ \cup {r.mbuf}]
              [] r.kind = "toolarge" ->
                    [q1 EXCEPT !.errors = (@ + 1) % UsizeMod]
              [] r.kind = "fault" -> [q1 EXCEPT !.crashed = TRUE]
              [] OTHER -> q1]

RxInit ==
    /\ PoolIdle
    /\ RingIdle
    /\ UdpIdle
    /\ MmIdle
    /\ ObsIdle
    /\ MbIdle
    /\ rxq = RxqNew

RxqRecvPacket ==
    /\ ~rxq.crashed
    /\ rxq.calls < MaxRxCalls
    /\ \E frame \in RxFrames :
        \E r \in {RxQueueRecv([rxq EXCEPT !.calls = @ + 1], pool, frame)} :
            /\ pool' = r.pool
            /\ rxq' = r.rxq
    /\ UNCHANGED <<poolSeqVars, pt, ringVars, udpVars, mm, obs, enq, mb>>

\* next_packet() returns TimeoutExpired: "No packet available"
RxqRecvTimeout ==
    /\ ~rxq.crashed
    /\ rxq.calls < MaxRxCalls
    /\ rxq' = [rxq EXCEPT !.calls = @ + 1,
                          !.last = [NoRxOp EXCEPT !.op = "recv",
                                                  !.outcome = "NoPacket"]]
    /\ UNCHANGED <<pool, poolSeqVars, pt, ringVars, udpVars, mm, obs, enq, mb>>

\* next_packet() returns another error: errors is incremented
RxqRecvPcapError ==
    /\ ~rxq.crashed
    /\ rxq.calls < MaxRxCalls
    /\ rxq' = [rxq EXCEPT !.calls = @ + 1,
                          !.errors = (@ + 1) % UsizeMod,
                          !.last = [NoRxOp EXCEPT !.op = "recv",
                                                  !.outcome = "PcapError"]]
    /\ UNCHANGED <<pool, poolSeqVars, pt, ringVars, udpVars, mm, obs, enq, mb>>

\* The owner gives an mbuf that recv returned back to the pool.
RxqFree(mbuf) ==
    /\ ~rxq.crashed
    /\ rxq.calls < MaxRxCalls
    /\ mbuf \in rxq.returned
    /\ pool' = Free(pool, mbuf)
    /\ rxq' = [rxq EXCEPT !.calls = @ + 1,
                          !.returned = @ \ {mbuf},
                          !.last = [NoRxOp EXCEPT !.op = "free",
                                                  !.outcome = "Ok",
                                                  !.mbuf = mbuf]]
    /\ UNCHANGED <<poolSeqVars, pt, ringVars, udpVars, mm, obs, enq, mb>>

RxNext ==
    \/ RxqRecvPacket
    \/ RxqRecvTimeout
    \/ RxqRecvPcapError
    \/ \E mbuf \in rxq.returned : RxqFree(mbuf)

SpecRx == RxInit /\ [][RxNext]_vars

\* A step of SpecRx in which recv got a frame longer than the buffer of the
\* mbuf it had allocated.
TooLargeStep ==
    /\ rxq'.calls = rxq.calls + 1
    /\ rxq'.last.op = "recv"
    /\ rxq'.last.outcome = "toolarge"

\* C23: when recv gets a frame longer than the mbuf's capacity, the mbuf it
\* allocated is the head of the freelist again, errors is one higher, and
\* packets_received, bytes_received and the pool's number of free mbufs are
\* what they were before the call.
C23_TooLargeFrame ==
    [][TooLargeStep =>
        /\ pool'.free_list = rxq'.last.mbuf
        /\ rxq'.errors = rxq.errors + 1
        /\ rxq'.packets_received = rxq.packets_received
        /\ rxq'.bytes_received = rxq.bytes_received
        /\ rxq'.returned = rxq.returned
        /\ pool'.available = pool.available
        /\ FreeList(pool') = FreeList(pool)]_vars

(***************************************************************************)
(* An Mbuf built with Mbuf::new over a buffer of its own (as in            *)
(* test_mbuf_operations), then filled with append and cleared with reset.  *)
(* The record is at the start of the memory, its buffer behind the records.*)
(***************************************************************************)
OwnMbuf == U64(HdrAddr(0))

OwnBuffer == DataSlotAddr(0)

\* let mut mbuf = Mbuf::new(data.as_ptr() as *mut u8, cap)
OwnMem(cap) ==
    [a \in 0..(MemSize - 1) |->
        IF a < MbufSize THEN MbufNew(OwnBuffer, cap)[a + 1] ELSE 0]

\* mbuf.len and mbuf.buf_len
MbufLen(m, mbuf) == Val(LoadU64(m, Val(mbuf) + OffLen))

MbufBufLen(m, mbuf) == Val(LoadU64(m, Val(mbuf) + OffBufLen))

\* The copy behind the data and the new length, once the bytes are known to fit
MbufCopy(m, mbuf, data) ==
    LET len == MbufLen(m, mbuf)
        dst == Val(LoadU64(m, Val(mbuf) + OffData)) + len
    IN  [res |-> "Ok",
         mem |-> Store(Store(m, dst, data), Val(mbuf) + OffLen,
                       U64(len + Len(data)))]

\* append without the comparison with buf_len
MbufAppendUnchecked(m, mbuf, data) == MbufCopy(m, mbuf, data)

\* Mbuf::append(data); len, buf_len and data.len() are each below 2^63, so
\* the sum does not overflow a usize
MbufAppend(m, mbuf, data) ==
    IF MbufLen(m, mbuf) + Len(data) > MbufBufLen(m, mbuf)
    THEN [res |-> "MemoryAllocation", mem |-> m]
    ELSE MbufCopy(m, mbuf, data)

\* The buffer sizes of the Mbufs built and the slices appended.
MbufCaps == 0..MaxCap

AppendData ==
    UNION {[1..n -> {1, 2}] : n \in 0..MaxAppend}

MbufInit ==
    /\ PoolIdle
    /\ RingIdle
    /\ UdpIdle
    /\ MmIdle
    /\ ObsIdle
    /\ RxqIdle
    /\ \E cap \in MbufCaps :
        mb = [MbNone EXCEPT !.mem = OwnMem(cap), !.last.op = "new"]

MbAppend(data) ==
    /\ \E r \in {MbufAppend(mb.mem, OwnMbuf, data)} :
        mb' = [mb EXCEPT !.mem = r.mem,
                         !.last = [op |-> "append", res |-> r.res,
                                   out |-> data]]
    /\ UNCHANGED <<pool, poolSeqVars, pt, ringVars, udpVars, mm, obs, enq, rxq>>

MbReset ==
    /\ mb' = [mb EXCEPT !.mem = MbufReset(@, OwnMbuf),
                        !.last = [op |-> "reset", res |-> "Ok", out |-> <<>>]]
    /\ UNCHANGED <<pool, poolSeqVars, pt, ringVars, udpVars, mm, obs, enq, rxq>>

MbufNext ==
    \/ \E data \in AppendData : MbAppend(data)
    \/ MbReset

SpecMbuf == MbufInit /\ [][MbufNext]_vars

\* C30: append(bytes) returns Ok exactly when length + |bytes| <= capacity,
\* and then the data are the old data followed by bytes; otherwise it
\* returns the MemoryAllocation error and changes nothing; the capacity
\* never changes and the length never exceeds it, whatever append and reset
\* calls are made.
C30_AppendWithinCapacity ==
    [][/\ (mb' # mb /\ mb'.last.op = "append") =>
            LET bytes == mb'.last.out
                len == MbufLen(mb.mem, OwnMbuf)
            IN  IF len + Len(bytes) <= MbufBufLen(mb.mem, OwnMbuf)
                THEN /\ mb'.last.res = "Ok"
                     /\ MbufLen(mb'.mem, OwnMbuf) = len + Len(bytes)
                     /\ PacketBytes(mb'.mem, OwnMbuf)
                            = PacketBytes(mb.mem, OwnMbuf) \o bytes
                ELSE /\ mb'.last.res = "MemoryAllocation"
                     /\ mb'.mem = mb.mem
       /\ MbufBufLen(mb'.mem, OwnMbuf) = MbufBufLen(mb.mem, OwnMbuf)
       /\ MbufLen(mb'.mem, OwnMbuf) >= 0
       /\ MbufLen(mb'.mem, OwnMbuf) <= MbufBufLen(mb'.mem, OwnMbuf)]_vars

\* An append has been turned away on an Mbuf that is partly filled, where
\* a shorter slice would still have fitted.
C30_Witness ==
    /\ mb.last.op = "append"
    /\ mb.last.res = "MemoryAllocation"
    /\ MbufLen(mb.mem, OwnMbuf) > 0
    /\ MbufLen(mb.mem, OwnMbuf) < MbufBufLen(mb.mem, OwnMbuf)
    /\ PacketBytes(mb.mem, OwnMbuf) # Zeros(MbufLen(mb.mem, OwnMbuf))

(***************************************************************************)
(* UdpPacket::from_mbuf and the accessors of the view it returns, on an    *)
(* Mbuf built on its own whose buffer holds one frame.                     *)
(***************************************************************************)
\* UdpHeader::new(8080, 53, 512) of test_udp_header
SrcPort == 8080

PayloadBytes == <<171, 205, 239>>

\* A frame of n bytes: Ethernet and IPv4 headers with the given EtherType,
\* protocol and ihl, and, where the ihl field says the IPv4 header ends, a
\* UDP header with the given length field followed by PayloadBytes.  The
\* IPv4 header's bytes win where an ihl below 5 makes the two overlap.
ParseFrame(ether_type, protocol, ihl, udp_length, n) ==
    LET head == Frame(OrdinaryMac, ether_type, protocol, 0)
        rest == U16BE(SrcPort) \o U16BE(CHOOSE p \in Ports : p # SrcPort)
                \o U16BE(udp_length) \o <<0, 0>> \o PayloadBytes
        at == EthHdrLen + ihl * 4
    IN  [k \in 1..n |->
            IF k - 1 = EthHdrLen THEN 64 + ihl
            ELSE IF k - 1 < EthHdrLen + Ipv4HdrLen THEN head[k]
            ELSE IF k - 1 >= at /\ k - 1 < at + Len(rest) THEN rest[k - at]
            ELSE 0]

\* The UDP length fields and, for each ihl, the frame lengths tried.
UdpLengths ==
    {0, UdpHdrLen - 1, UdpHdrLen, UdpHdrLen + Len(PayloadBytes) - 1,
     UdpHdrLen + Len(PayloadBytes), UdpHdrLen + Len(PayloadBytes) + 1,
     Pow2(16) - 1}

FrameLengths(ihl) ==
    {0, EthHdrLen - 1, EthHdrLen, EthHdrLen + Ipv4HdrLen - 1,
     EthHdrLen + Ipv4HdrLen}
    \cup {n \in {EthHdrLen + ihl * 4 + UdpHdrLen + d :
                    d \in {-1, 0, Len(PayloadBytes)}} : n >= 0}

ParseFrames ==
    {ParseFrame(e, p, ihl, l, n) :
        e \in {EtherTypeIpv4, EtherTypeArp}, p \in {ProtoUdp, ProtoTcp},
        ihl \in 0..MaxIhl, l \in UdpLengths,
        n \in UNION {FrameLengths(i) : i \in 0..MaxIhl}}

\* payload() for a length field of at least the header size: the slice
\* behind the UDP header, or the empty slice when it would end beyond the data
PayloadSlice(m, mbuf, packet) ==
    LET data == LoadU64(m, Val(mbuf) + OffData)
        payload_len == packet.length - UdpHdrLen
    IN  IF packet.payload_offset + payload_len <= MbufLen(m, mbuf)
        THEN [res |-> "Ok",
              bytes |-> Load(m, Val(data) + packet.payload_offset, payload_len)]
        ELSE [res |-> "Ok", bytes |-> <<>>]

\* UdpPacket::payload(): length() as usize - size_of::<UdpHeader>() goes
\* below zero for a length under 8: a panic where overflow is checked, and
\* otherwise a slice whose end is below its start, which panics as well.
Payload(m, mbuf, packet) ==
    IF packet.length < UdpHdrLen THEN [res |-> "panic", bytes |-> <<>>]
    ELSE PayloadSlice(m, mbuf, packet)

\* src_addr() with the port in the byte order of the host
SrcAddrNative(m, mbuf, packet) ==
    LET data == Val(LoadU64(m, Val(mbuf) + OffData))
        b == Load(m, data + packet.udp_offset, 2)
    IN  Load(m, data + packet.ip_offset + IpSrcAddrOff, 4)
        \o <<b[1] + 256 * b[2]>>

\* UdpPacket::src_addr(): the four address bytes, then the port
SrcAddr(m, mbuf, packet) ==
    LET data == Val(LoadU64(m, Val(mbuf) + OffData))
    IN  Load(m, data + packet.ip_offset + IpSrcAddrOff, 4)
        \o <<FromBE(Load(m, data + packet.udp_offset, 2))>>

\* UdpPacket::dst_addr()
DstAddr(m, mbuf, packet) ==
    LET data == Val(LoadU64(m, Val(mbuf) + OffData))
    IN  Load(m, data + packet.ip_offset + IpDstAddrOff, 4)
        \o <<FromBE(Load(m, data + packet.udp_offset + UdpDstPortOff, 2))>>

\* The Mbuf holds frame: the bytes are in its buffer and len is their number.
ParseInit ==
    /\ PoolIdle
    /\ RingIdle
    /\ UdpIdle
    /\ MmIdle
    /\ ObsIdle
    /\ RxqIdle
    /\ \E frame \in ParseFrames :
        mb = [MbNone EXCEPT
                !.mem = MbufAppend(OwnMem(ParseBufLen), OwnMbuf, frame).mem,
                !.frame = frame,
                !.last.op = "new"]

ParseFromMbuf ==
    /\ mb.packet.res = "none"
    /\ \E packet \in {FromMbuf(mb.mem, OwnMbuf)} :
        mb' = [mb EXCEPT !.packet = packet,
                         !.last = [op |-> "from_mbuf", res |-> packet.res,
                                   out |-> <<>>]]
    /\ UNCHANGED <<pool, poolSeqVars, pt, ringVars, udpVars, mm, obs, enq, rxq>>

ParsePayload ==
    /\ mb.packet.res = "Ok"
    /\ mb.last.res # "panic"
    /\ \E r \in {Payload(mb.mem, OwnMbuf, mb.packet)} :
        mb' = [mb EXCEPT !.last = [op |-> "payload", res |-> r.res,
                                   out |-> r.bytes]]
    /\ UNCHANGED <<pool, poolSeqVars, pt, ringVars, udpVars, mm, obs, enq, rxq>>

ParseSrcAddr ==
    /\ mb.packet.res = "Ok"
    /\ mb.last.res # "panic"
    /\ mb' = [mb EXCEPT !.last = [op |-> "src_addr", res |-> "Ok",
                                  out |-> SrcAddr(mb.mem, OwnMbuf, mb.packet)]]
    /\ UNCHANGED <<pool, poolSeqVars, pt, ringVars, udpVars, mm, obs, enq, rxq>>

ParseDstAddr ==
    /\ mb.packet.res = "Ok"
    /\ mb.last.res # "panic"
    /\ mb' = [mb EXCEPT !.last = [op |-> "dst_addr", res |-> "Ok",
                                  out |-> DstAddr(mb.mem, OwnMbuf, mb.packet)]]
    /\ UNCHANGED <<pool, poolSeqVars, pt, ringVars, udpVars, mm, obs, enq, rxq>>

ParseNext ==
    \/ ParseFromMbuf
    \/ ParsePayload
    \/ ParseSrcAddr
    \/ ParseDstAddr

SpecParse == ParseInit /\ [][ParseNext]_vars

\* A 16-bit field of a frame in network byte order, at a 0-based offset.
FrameU16(f, off) == 256 * f[off + 1] + f[off + 2]

\* The ihl field of a frame that has an IPv4 header.
FrameIhl(f) == f[EthHdrLen + 1] % 16

\* What the five checks, applied in order to the bytes of a frame, give.
Verdict(f) ==
    IF Len(f) < EthHdrLen THEN "TooShort"
    ELSE IF FrameU16(f, EthTypeOff) # EtherTypeIpv4 THEN "NotIpv4"
    ELSE IF Len(f) < EthHdrLen + Ipv4HdrLen THEN "TooShort"
    ELSE IF f[EthHdrLen + IpProtocolOff + 1] # ProtoUdp THEN "NotUdp"
    ELSE IF Len(f) < EthHdrLen + FrameIhl(f) * 4 + UdpHdrLen THEN "TooShort"
    ELSE "Ok"

\* The error of from_mbuf as the kinds of the five checks.
VerdictOf(packet) ==
    IF packet.res = "Ok" THEN "Ok"
    ELSE IF packet.err \in {"TooSmallForEthernet", "TooSmallForIpv4",
                            "TooSmallForUdp"} THEN "TooShort"
    ELSE packet.err

\* C24: from_mbuf fails with the first of the five checks (length >= 14,
\* EtherType 0x0800, length >= 34, protocol 17, length >= 14 + ihl*4 + 8)
\* that does not hold and succeeds exactly when all hold; an empty frame is
\* too short and a frame with protocol 6 is not UDP.
C24_ChecksInOrder ==
    mb.packet.res # "none" =>
        /\ mb.packet.res \in {"Ok", "Err"}
        /\ VerdictOf(mb.packet) = Verdict(mb.frame)
        /\ mb.frame = <<>> => mb.packet.err = "TooSmallForEthernet"
        /\ (Len(mb.frame) >= EthHdrLen + Ipv4HdrLen
            /\ FrameU16(mb.frame, EthTypeOff) = EtherTypeIpv4
            /\ mb.frame[EthHdrLen + IpProtocolOff + 1] = ProtoTcp)
                => mb.packet.err = "NotUdp"

\* from_mbuf has turned away a TCP frame that is long enough for all three
\* headers.
C24_Witness ==
    /\ mb.last.op = "from_mbuf"
    /\ mb.packet.err = "NotUdp"
    /\ Len(mb.frame) >= EthHdrLen + FrameIhl(mb.frame) * 4 + UdpHdrLen
    /\ mb.frame[EthHdrLen + IpProtocolOff + 1] = ProtoTcp

\* C25: in every packet view from_mbuf returns, eth_offset < ip_offset <
\* udp_offset < payload_offset, and each offset is at most the mbuf's
\* length, whatever the ihl field is.
C25_OffsetsIncrease ==
    mb.packet.res = "Ok" =>
        /\ mb.packet.eth_offset < mb.packet.ip_offset
        /\ mb.packet.ip_offset < mb.packet.udp_offset
        /\ mb.packet.udp_offset < mb.packet.payload_offset
        /\ mb.packet.payload_offset <= MbufLen(mb.mem, OwnMbuf)

\* C26: payload() never fails: it returns the (length - 8) bytes behind the
\* UDP header when there are that many within the mbuf's length, and the
\* empty slice otherwise, also for a length field below 8.
C26_PayloadNeverFails ==
    mb.last.op = "payload" =>
        LET f == mb.frame
            start == EthHdrLen + FrameIhl(f) * 4 + UdpHdrLen
            n == FrameU16(f, start - UdpHdrLen + UdpLengthOff) - UdpHdrLen
        IN  /\ mb.last.res = "Ok"
            /\ mb.last.out = IF n >= 0 /\ start + n <= Len(f)
                             THEN SubSeq(f, start + 1, start + n)
                             ELSE <<>>

\* C27: on a view from_mbuf returned, src_addr() is the frame's IPv4 source
\* address with the UDP source port and dst_addr() its IPv4 destination
\* address with the UDP destination port, the ports read in network byte
\* order.
C27_AddressesAndPorts ==
    LET f == mb.frame
        udp_at == EthHdrLen + FrameIhl(f) * 4
    IN  /\ mb.last.op = "src_addr" =>
                mb.last.out = SubSeq(f, EthHdrLen + IpSrcAddrOff + 1,
                                     EthHdrLen + IpSrcAddrOff + 4)
                              \o <<FrameU16(f, udp_at)>>
        /\ mb.last.op = "dst_addr" =>
                mb.last.out = SubSeq(f, EthHdrLen + IpDstAddrOff + 1,
                                     EthHdrLen + IpDstAddrOff + 4)
                              \o <<FrameU16(f, udp_at + UdpDstPortOff)>>

\* src_addr() has returned 10.0.0.1 with port SrcPort for a frame whose
\* IPv4 header carries options.
C27_Witness ==
    /\ mb.last.op = "src_addr"
    /\ mb.last.out = <<10, 0, 0, 1, SrcPort>>
    /\ FrameIhl(mb.frame) > 5

\* C31: on a pool used by one thread, whenever every mbuf that was allocated
\* has been freed once (none is out), stats() reports available = N, the
\* value it had at the start, however many alloc and free calls were made.
C31_AvailableRestored ==
    held = <<>> =>
        /\ Stats(pool).available = PoolSize
        /\ Stats(pool).available = Stats(PoolNew).available

\* C31 witness: all N mbufs were out at once and every one has been freed.
C31_Witness ==
    /\ held = <<>>
    /\ maxInUse = PoolSize
    /\ lastOp.op = "free" /\ lastOp.kind = "ok"

(***************************************************************************)
(* RingBufferStorage::new for every requested capacity.  usize is          *)
(* IndexBits wide here, so the requests above half the range are included. *)
(***************************************************************************)
Requests == 0..(IndexMod - 1)

\* usize::is_power_of_two
IsPowerOfTwo(n) == n >= 1 /\ NextPowerOfTwo(n) = n

\* The capacity RingBufferStorage::new computes.  next_power_of_two has no
\* representable result above half the range: a build with overflow checks
\* panics, a build without returns 0.
RoundedCapacity(n) ==
    IF IsPowerOfTwo(n) THEN {[panic |-> FALSE, capacity |-> n]}
    ELSE IF NextPowerOfTwo(n) < IndexMod
    THEN {[panic |-> FALSE, capacity |-> NextPowerOfTwo(n)]}
    ELSE {[panic |-> TRUE, capacity |-> 0], [panic |-> FALSE, capacity |-> 0]}

\* RingBufferStorage::new with the head and tail of the ring around it;
\* mask: capacity - 1 is reached with capacity 0 only where the subtraction
\* wraps.
StorageNew(n) ==
    {IF c.panic
     THEN [state |-> "panicked", requested |-> n, capacity |-> 0, mask |-> 0,
           head |-> 0, tail |-> 0, slots |-> <<>>]
     ELSE [state |-> "built", requested |-> n, capacity |-> c.capacity,
           mask |-> WrapSub(c.capacity, 1), head |-> 0, tail |-> 0,
           slots |-> [i \in 0..(c.capacity - 1) |-> Uninit]]
     : c \in RoundedCapacity(n)}

Unbuilt ==
    [state |-> "unbuilt", requested |-> 0, capacity |-> 0, mask |-> 0,
     head |-> 0, tail |-> 0, slots |-> <<>>]

\* MpmcRingBuffer::push on a ring of the capacity it was built with
SizedPush(r, value) ==
    IF WrapSub(r.tail, r.head) >= r.capacity
    THEN [res |-> "Full", ring |-> r]
    ELSE [res |-> "Ok",
          ring |-> [r EXCEPT !.tail = WrapAdd(r.tail, 1),
                             !.slots[BitAnd(r.tail, r.mask)] = value]]

\* MpmcRingBuffer::pop on a ring of the capacity it was built with
SizedPop(r) ==
    IF r.head = r.tail
    THEN [res |-> "Empty", ring |-> r]
    ELSE [res |-> "Ok", ring |-> [r EXCEPT !.head = WrapAdd(r.head, 1)]]

CapInit ==
    /\ PoolIdle
    /\ UdpIdle
    /\ MmIdle
    /\ ObsIdle
    /\ RxqIdle
    /\ MbIdle
    /\ kind = "mpmc"
    /\ ring = Unbuilt
    /\ rt = RtIdle
    /\ pushed = EmptyBag
    /\ popped = EmptyBag
    /\ fifo = <<>>
    /\ lastRing = NoRingOp

\* MpmcRingBuffer::new(n)
CapNew ==
    /\ ring.state = "unbuilt"
    /\ \E n \in Requests : ring' \in StorageNew(n)
    /\ lastRing' = [NoRingOp EXCEPT !.op = "new"]
    /\ UNCHANGED <<kind, rt, pushed, popped, fifo, nonRingVars>>

\* ring.push(value); lastRing.expected is the number of items held before
CapPush ==
    /\ ring.state = "built"
    /\ rt[1].calls < MaxCapCalls
    /\ \E value \in SeqValues :
        LET out == SizedPush(ring, value) IN
        /\ ring' = out.ring
        /\ fifo' = IF out.res = "Ok" THEN Append(fifo, value) ELSE fifo
        /\ lastRing' = [op |-> "push", res |-> out.res, value |-> value,
                        expected |-> Len(fifo)]
    /\ rt' = [rt EXCEPT ![1].calls = @ + 1]
    /\ UNCHANGED <<kind, pushed, popped, nonRingVars>>

\* ring.pop()
CapPop ==
    /\ ring.state = "built"
    /\ rt[1].calls < MaxCapCalls
    /\ LET out == SizedPop(ring) IN
        /\ ring' = out.ring
        /\ fifo' = IF out.res = "Ok" THEN Tail(fifo) ELSE fifo
        /\ lastRing' = [op |-> "pop", res |-> out.res, value |-> 0,
                        expected |-> Len(fifo)]
    /\ rt' = [rt EXCEPT ![1].calls = @ + 1]
    /\ UNCHANGED <<kind, pushed, popped, nonRingVars>>

CapNext == CapNew \/ CapPush \/ CapPop

SpecCap == CapInit /\ [][CapNext]_vars

\* The smallest power of two that is at least n.
SmallestPowerOfTwoAtLeast(n) ==
    CHOOSE p \in {Pow2(k) : k \in 0..IndexBits} :
        /\ p >= n
        /\ \A k \in 0..IndexBits : Pow2(k) >= n => p <= Pow2(k)

\* C32: for every requested capacity n the ring is constructed with
\* capacity() equal to the smallest power of two that is at least n, and a
\* push returns Full exactly when capacity() items are held, so the ring
\* accepts capacity() pushes and not one more.
C32_CapacityRoundedUp ==
    /\ ring.state # "unbuilt" =>
        /\ ring.state = "built"
        /\ ring.capacity = SmallestPowerOfTwoAtLeast(ring.requested)
    /\ lastRing.op = "push" =>
        (lastRing.res = "Full" <=> lastRing.expected = ring.capacity)

\* A step of SpecMpmc in which consumer c reads the slot of the index it
\* reserved and returns.
MpmcReadStep(c) ==
    /\ rt[c].pc = "c_read"
    /\ rt'[c].pc = "idle"

\* C33: a pop never reads the slot of the index it reserved while the push
\* that reserved the same index has not yet written it, and the value it
\* returns is the one that slot holds, written by that push.
C33_ReadAfterWrite ==
    [][\A c \in Consumers : MpmcReadStep(c) =>
        /\ \A p \in Producers :
            ~(rt[p].pc = "p_write" /\ rt[p].tail = rt[c].head)
        /\ popped' = popped (+) SetToBag({ring.slots[SlotIndex(rt[c].head)]})]_vars

(***************************************************************************)
(* SpmcRingBuffer with one producer thread and several consumer threads:   *)
(* every load, store, compare-exchange, slot write and slot read is a step *)
(* of its own.  fifo records the accepted values in the order of their     *)
(* indices: the value pushed at index i is fifo[i + 1].                    *)
(***************************************************************************)
TheProducer == 1

SpmcInit ==
    /\ PoolIdle
    /\ UdpIdle
    /\ MmIdle
    /\ ObsIdle
    /\ RxqIdle
    /\ MbIdle
    /\ kind = "spmc"
    /\ ring = RingNew
    /\ rt = RtIdle
    /\ pushed = EmptyBag
    /\ popped = EmptyBag
    /\ fifo = <<>>
    /\ lastRing = NoRingOp

\* push: let tail = self.tail.load(Relaxed)
SpmcPushLoadTail ==
    /\ rt[TheProducer].pc = "idle"
    /\ rt[TheProducer].calls < SpmcPushes
    /\ rt' = [rt EXCEPT
                ![TheProducer].pc = "p_head",
                ![TheProducer].tail = ring.tail,
                ![TheProducer].calls = @ + 1,
                ![TheProducer].value =
                    PushValue(TheProducer, rt[TheProducer].calls + 1)]
    /\ UNCHANGED <<kind, ring, pushed, popped, fifo, lastRing, nonRingVars>>

\* push: let head = self.head.load(Acquire); return Err(Full) when full
SpmcPushLoadHead ==
    /\ rt[TheProducer].pc = "p_head"
    /\ IF IsFull(rt[TheProducer].tail, ring.head)
       THEN rt' = [rt EXCEPT ![TheProducer].pc = "idle",
                             ![TheProducer].tail = 0,
                             ![TheProducer].value = 0]
       ELSE rt' = [rt EXCEPT ![TheProducer].pc = "p_write"]
    /\ UNCHANGED <<kind, ring, pushed, popped, fifo, lastRing, nonRingVars>>

\* push: self.storage.write(tail, value)
SpmcPushWrite ==
    /\ rt[TheProducer].pc = "p_write"
    /\ ring' = StorageWrite(ring, rt[TheProducer].tail, rt[TheProducer].value)
    /\ rt' = [rt EXCEPT ![TheProducer].pc = "p_store"]
    /\ fifo' = Append(fifo, rt[TheProducer].value)
    /\ UNCHANGED <<kind, pushed, popped, lastRing, nonRingVars>>

\* push: self.tail.store(tail.wrapping_add(1), Release); return Ok(())
SpmcPushStoreTail ==
    /\ rt[TheProducer].pc = "p_store"
    /\ ring' = [ring EXCEPT !.tail = WrapAdd(rt[TheProducer].tail, 1)]
    /\ pushed' = pushed (+) SetToBag({rt[TheProducer].value})
    /\ rt' = [rt EXCEPT ![TheProducer].pc = "idle",
                        ![TheProducer].tail = 0,
                        ![TheProducer].value = 0]
    /\ UNCHANGED <<kind, popped, fifo, lastRing, nonRingVars>>

\* pop: let head = self.head.load(Relaxed), on entry and after a failed
\* compare-exchange
SpmcPopLoadHead(t) ==
    /\ \/ rt[t].pc = "c_head"
       \/ rt[t].pc = "idle" /\ rt[t].calls < MaxRingCalls
    /\ rt' = [rt EXCEPT
                ![t].pc = "c_tail",
                ![t].head = ring.head,
                ![t].calls = IF rt[t].pc = "idle" THEN @ + 1 ELSE @]
    /\ UNCHANGED <<kind, ring, pushed, popped, fifo, lastRing, nonRingVars>>

\* pop: let tail = self.tail.load(Acquire); return Err(Empty) when equal
SpmcPopLoadTail(t) ==
    /\ rt[t].pc = "c_tail"
    /\ IF rt[t].head = ring.tail
       THEN rt' = [rt EXCEPT ![t].pc = "idle", ![t].head = 0]
       ELSE rt' = [rt EXCEPT ![t].pc = "c_cas"]
    /\ UNCHANGED <<kind, ring, pushed, popped, fifo, lastRing, nonRingVars>>

\* pop: head.compare_exchange_weak(head, head.wrapping_add(1)): it succeeds
\* only when head is unchanged; when it fails, backoff.snooze() and loop
SpmcPopCas(t) ==
    /\ rt[t].pc = "c_cas"
    /\ \/ /\ ring.head = rt[t].head
          /\ ring' = [ring EXCEPT !.head = WrapAdd(rt[t].head, 1)]
          /\ rt' = [rt EXCEPT ![t].pc = "c_read"]
       \/ /\ ring' = ring
          /\ rt' = [rt EXCEPT ![t].pc = "c_head"]
    /\ UNCHANGED <<kind, pushed, popped, fifo, lastRing, nonRingVars>>

\* pop: let value = self.storage.read(head); return Ok(value)
SpmcPopRead(t) ==
    /\ rt[t].pc = "c_read"
    /\ \E v \in StorageRead(ring, rt[t].head) :
        /\ rt' = [rt EXCEPT ![t].pc = "idle", ![t].head = 0]
        /\ popped' = popped (+) SetToBag({v})
    /\ UNCHANGED <<kind, ring, pushed, fifo, lastRing, nonRingVars>>

SpmcNext ==
    \/ SpmcPushLoadTail
    \/ SpmcPushLoadHead
    \/ SpmcPushWrite
    \/ SpmcPushStoreTail
    \/ \E t \in Consumers :
        \/ SpmcPopLoadHead(t)
        \/ SpmcPopLoadTail(t)
        \/ SpmcPopCas(t)
        \/ SpmcPopRead(t)

SpecSpmc == SpmcInit /\ [][SpmcNext]_vars

\* C34: with one producer and several consumers no two consumers hold the
\* same index, the slot of an index a consumer has reserved and not yet read
\* still holds the value pushed at that index, and once everything has been
\* consumed the values popped are exactly the values pushed.
C34_SpmcExactlyOnce ==
    /\ \A c1, c2 \in Consumers :
        (c1 # c2 /\ rt[c1].pc = "c_read" /\ rt[c2].pc = "c_read")
            => rt[c1].head # rt[c2].head
    /\ \A c \in Consumers :
        rt[c].pc = "c_read" =>
            ring.slots[SlotIndex(rt[c].head)] = fifo[rt[c].head + 1]
    /\ (RingQuiescent /\ ring.head = ring.tail) => popped = pushed

\* A step of SpecMpmc in which producer p's push returns Err(Full).
MpmcFullStep(p) ==
    /\ rt[p].pc = "p_head"
    /\ rt'[p].pc = "idle"

\* C35: a push returns Full only if the ring held at least C elements at some
\* instant of the call.  The indices start at 0 and tail counts every index
\* reserved so far (fewer than 2^IndexBits are), so as long as tail is below
\* C the ring has never held C elements and no push may return Full.
C35_FullOnlyWhenFull ==
    [][\A p \in Producers : MpmcFullStep(p) => ring.tail >= Capacity]_vars

\* C36: with threads calling alloc and free concurrently, whenever no call
\* is in progress the available counter equals the number of mbufs on the
\* freelist.
C36_NoLostCounterUpdate ==
    (\A t \in PoolThreads : pt[t].pc = "idle") =>
        pool.available = Len(FreeList(pool))

(***************************************************************************)
(* Two MpmcRingBuffers given the same calls by one thread: the indices of  *)
(* ring.lo start at 0, those of ring.hi at the largest index value, so     *)
(* that they wrap during use.                                              *)
(***************************************************************************)
WrapStart == IndexMod - 1

RingAt(start) == [RingNew EXCEPT !.head = start, !.tail = start]

NoResult == [res |-> "none", count |-> 0, values |-> <<>>]

WrapInit ==
    /\ PoolIdle
    /\ UdpIdle
    /\ MmIdle
    /\ ObsIdle
    /\ RxqIdle
    /\ MbIdle
    /\ kind = "mpmc"
    /\ ring = [lo |-> RingAt(0), hi |-> RingAt(WrapStart)]
    /\ rt = RtIdle
    /\ pushed = EmptyBag
    /\ popped = EmptyBag
    /\ fifo = <<>>
    /\ lastRing = [op |-> "none", lo |-> NoResult, hi |-> NoResult]

WrapReady ==
    /\ rt[1].calls < MaxWrapCalls
    /\ lastRing.lo.res # "panic"
    /\ lastRing.hi.res # "panic"

\* push(value) on both rings
WrapPush ==
    /\ WrapReady
    /\ \E value \in SeqValues :
        LET a == MpmcPush(ring.lo, value)
            b == MpmcPush(ring.hi, value)
        IN  /\ ring' = [lo |-> a.ring, hi |-> b.ring]
            /\ lastRing' = [op |-> "push",
                            lo |-> [NoResult EXCEPT !.res = a.res],
                            hi |-> [NoResult EXCEPT !.res = b.res]]
    /\ rt' = [rt EXCEPT ![1].calls = @ + 1]
    /\ UNCHANGED <<kind, pushed, popped, fifo, nonRingVars>>

\* pop() on both rings
WrapPop ==
    /\ WrapReady
    /\ LET a == MpmcPop(ring.lo)
           b == MpmcPop(ring.hi)
       IN  \E va \in a.values, vb \in b.values :
            /\ ring' = [lo |-> a.ring, hi |-> b.ring]
            /\ lastRing' = [op |-> "pop",
                            lo |-> [res |-> a.res, count |-> 0, values |-> <<va>>],
                            hi |-> [res |-> b.res, count |-> 0, values |-> <<vb>>]]
    /\ rt' = [rt EXCEPT ![1].calls = @ + 1]
    /\ UNCHANGED <<kind, pushed, popped, fifo, nonRingVars>>

\* push_batch(items) on both rings
WrapPushBatch ==
    /\ WrapReady
    /\ \E items \in BatchItems :
        \E a \in MpmcPushBatch(ring.lo, items), b \in MpmcPushBatch(ring.hi, items) :
            /\ ring' = [lo |-> a.ring, hi |-> b.ring]
            /\ lastRing' = [op |-> "push_batch",
                            lo |-> [NoResult EXCEPT !.res = a.res],
                            hi |-> [NoResult EXCEPT !.res = b.res]]
    /\ rt' = [rt EXCEPT ![1].calls = @ + 1]
    /\ UNCHANGED <<kind, pushed, popped, fifo, nonRingVars>>

\* pop_batch(&mut buf) with a buffer of n items on both rings
WrapPopBatch ==
    /\ WrapReady
    /\ \E n \in 0..MaxBatchLen :
        \E a \in MpmcPopBatch(ring.lo, n), b \in MpmcPopBatch(ring.hi, n) :
            /\ ring' = [lo |-> a.ring, hi |-> b.ring]
            /\ lastRing' = [op |-> "pop_batch",
                            lo |-> [res |-> a.res, count |-> a.count,
                                    values |-> a.values],
                            hi |-> [res |-> b.res, count |-> b.count,
                                    values |-> b.values]]
    /\ rt' = [rt EXCEPT ![1].calls = @ + 1]
    /\ UNCHANGED <<kind, pushed, popped, fifo, nonRingVars>>

WrapNext == WrapPush \/ WrapPop \/ WrapPushBatch \/ WrapPopBatch

SpecWrap == WrapInit /\ [][WrapNext]_vars

\* C37: a ring whose indices start just below 2^w and wrap during use gives
\* the same results as a ring whose indices start at 0: every push, pop,
\* push_batch and pop_batch returns the same on both, and len, is_full and
\* is_empty agree after every call.
C37_SameAcrossWrap ==
    /\ lastRing.lo = lastRing.hi
    /\ RingLen(ring.lo) = RingLen(ring.hi)
    /\ IsFull(ring.lo.tail, ring.lo.head) = IsFull(ring.hi.tail, ring.hi.head)
    /\ (ring.lo.head = ring.lo.tail) = (ring.hi.head = ring.hi.tail)

(***************************************************************************)
(* The UDP stack of SpecUdp with close_socket among its calls.             *)
(***************************************************************************)
\* UdpStack::close_socket(id) on the stack that receives: the socket is
\* removed and dropped with whatever its receive FIFO holds; the pool is not
\* touched.
UdpCloseSocket(id) ==
    /\ ~udp.crashed
    /\ ~udp.pump.active
    /\ udp' = CloseSocket(udp, id)
    /\ lastUdp' = [NoUdpOp EXCEPT
            !.op = "close_socket", !.outcome = "Ok", !.sock = id,
            !.availBefore = pool.available,
            !.socketsBefore = udp.sockets,
            !.stopped = IF id \in DOMAIN udp.sockets
                        THEN <<[udp.sockets[id] EXCEPT !.running = FALSE]>>
                        ELSE <<>>]
    /\ enq' = [x \in DOMAIN enq \ {id} |-> enq[x]]
    /\ UNCHANGED <<pool, poolSeqVars, pt, ringVars, rxq, mb, mm, obs>>

\* One iteration of process_rx_packets that takes a frame from the capture.
ClosePumpPacket ==
    /\ udp.frames < MaxCloseFrames
    /\ UdpPumpPacket

CloseNext ==
    \/ UdpCreateSocket
    \/ UdpPumpStart
    \/ ClosePumpPacket
    \/ UdpPumpTimeout
    \/ UdpPumpPcapError
    \/ \E id \in 1..MaxSockets : UdpSocketRecv(id)
    \/ \E id \in 1..MaxSockets : UdpCloseSocket(id)

SpecClose == UdpInit /\ [][CloseNext]_vars

\* C38: close_socket(id) returns every mbuf queued in the socket's receive
\* FIFO to the pool: after the call the pool has as many more mbufs
\* available as the FIFO held.
C38_CloseReturnsQueuedMbufs ==
    [][\A id \in 1..MaxSockets :
        (CloseStep(id) /\ id \in DOMAIN udp.sockets) =>
            pool'.available =
                pool.available + RingLen(udp.sockets[id].recv_queue)]_vars

(***************************************************************************)
(* MpmcQueue: the inner MpmcRingBuffer and the QueueStats counters, with   *)
(* threads pushing and popping.  The inner call and each atomic update of  *)
(* a counter is a step of its own.                                         *)
(***************************************************************************)
\* QueueStats::default()
QueueStatsNew ==
    [enqueued |-> 0, dequeued |-> 0, drops |-> 0, errors |-> 0,
     current_size |-> 0, peak_size |-> 0]

\* MpmcQueue::new
MpmcQueueNew == [inner |-> RingNew, stats |-> QueueStatsNew]

\* AtomicUsize::fetch_add and fetch_sub wrap around
FetchAdd(x, n) == (x + n) % UsizeMod

FetchSub(x, n) == (x - n + UsizeMod) % UsizeMod

\* MpmcQueue::size
QueueSize(q) == q.stats.current_size

\* MpmcQueue::is_empty
QueueIsEmpty(q) == QueueSize(q) = 0

\* MpmcQueue::is_full
QueueIsFull(q) == QueueSize(q) >= Capacity

QueueInit ==
    /\ PoolIdle
    /\ UdpIdle
    /\ MmIdle
    /\ ObsIdle
    /\ RxqIdle
    /\ MbIdle
    /\ kind = "mpmc"
    /\ ring = MpmcQueueNew
    /\ rt = RtIdle
    /\ pushed = EmptyBag
    /\ popped = EmptyBag
    /\ fifo = <<>>
    /\ lastRing = NoRingOp

\* push: match self.inner.push(item); Err -> drops.fetch_add(1), return Err
QueuePushInner(t) ==
    /\ rt[t].pc = "idle"
    /\ rt[t].calls < MaxRingCalls
    /\ LET out == MpmcPush(ring.inner, PushValue(t, rt[t].calls + 1)) IN
        IF out.res = "Ok"
        THEN /\ ring' = [ring EXCEPT !.inner = out.ring]
             /\ rt' = [rt EXCEPT ![t].pc = "q_enqueued", ![t].calls = @ + 1]
        ELSE /\ ring' = [ring EXCEPT !.stats.drops = FetchAdd(@, 1)]
             /\ rt' = [rt EXCEPT ![t].calls = @ + 1]
    /\ UNCHANGED <<kind, pushed, popped, fifo, lastRing, nonRingVars>>

\* push: self.stats.enqueued.fetch_add(1, Relaxed)
QueuePushEnqueued(t) ==
    /\ rt[t].pc = "q_enqueued"
    /\ ring' = [ring EXCEPT !.stats.enqueued = FetchAdd(@, 1)]
    /\ rt' = [rt EXCEPT ![t].pc = "q_size"]
    /\ UNCHANGED <<kind, pushed, popped, fifo, lastRing, nonRingVars>>

\* push: let current_size = self.stats.current_size.fetch_add(1, Relaxed) + 1
QueuePushSize(t) ==
    /\ rt[t].pc = "q_size"
    /\ ring' = [ring EXCEPT !.stats.current_size = FetchAdd(@, 1)]
    /\ rt' = [rt EXCEPT ![t].pc = "q_peak",
                        ![t].value = FetchAdd(ring.stats.current_size, 1)]
    /\ UNCHANGED <<kind, pushed, popped, fifo, lastRing, nonRingVars>>

\* push: self.stats.peak_size.fetch_max(current_size, Relaxed); Ok(())
QueuePushPeak(t) ==
    /\ rt[t].pc = "q_peak"
    /\ ring' = [ring EXCEPT !.stats.peak_size = Max(@, rt[t].value)]
    /\ rt' = [rt EXCEPT ![t].pc = "idle", ![t].value = 0]
    /\ UNCHANGED <<kind, pushed, popped, fifo, lastRing, nonRingVars>>

\* pop: match self.inner.pop(); Err -> errors.fetch_add(1), return Err
QueuePopInner(t) ==
    /\ rt[t].pc = "idle"
    /\ rt[t].calls < MaxRingCalls
    /\ LET out == MpmcPop(ring.inner) IN
        IF out.res = "Ok"
        THEN /\ ring' = [ring EXCEPT !.inner = out.ring]
             /\ rt' = [rt EXCEPT ![t].pc = "q_dequeued", ![t].calls = @ + 1]
        ELSE /\ ring' = [ring EXCEPT !.stats.errors = FetchAdd(@, 1)]
             /\ rt' = [rt EXCEPT ![t].calls = @ + 1]
    /\ UNCHANGED <<kind, pushed, popped, fifo, lastRing, nonRingVars>>

\* pop: self.stats.dequeued.fetch_add(1, Relaxed)
QueuePopDequeued(t) ==
    /\ rt[t].pc = "q_dequeued"
    /\ ring' = [ring EXCEPT !.stats.dequeued = FetchAdd(@, 1)]
    /\ rt' = [rt EXCEPT ![t].pc = "q_unsize"]
    /\ UNCHANGED <<kind, pushed, popped, fifo, lastRing, nonRingVars>>

\* pop: self.stats.current_size.fetch_sub(1, Relaxed); Ok(item)
QueuePopSize(t) ==
    /\ rt[t].pc = "q_unsize"
    /\ ring' = [ring EXCEPT !.stats.current_size = FetchSub(@, 1)]
    /\ rt' = [rt EXCEPT ![t].pc = "idle"]
    /\ UNCHANGED <<kind, pushed, popped, fifo, lastRing, nonRingVars>>

QueueNext ==
    \/ \E t \in Producers :
        \/ QueuePushInner(t)
        \/ QueuePushEnqueued(t)
        \/ QueuePushSize(t)
        \/ QueuePushPeak(t)
    \/ \E t \in Consumers :
        \/ QueuePopInner(t)
        \/ QueuePopDequeued(t)
        \/ QueuePopSize(t)

SpecQueue == QueueInit /\ [][QueueNext]_vars

\* C39: size() is between 0 and capacity() at every instant, also while
\* threads push and pop; whenever no call is in progress it equals
\* enqueued - dequeued and the number of items in the inner ring, and
\* is_empty() and is_full() agree with the inner ring.
C39_SizeWithinCapacity ==
    /\ 0 <= QueueSize(ring)
    /\ QueueSize(ring) <= Capacity
    /\ RingQuiescent =>
        /\ QueueSize(ring) = ring.stats.enqueued - ring.stats.dequeued
        /\ QueueSize(ring) = RingLen(ring.inner)
        /\ QueueIsEmpty(ring) = (ring.inner.head = ring.inner.tail)
        /\ QueueIsFull(ring) = IsFull(ring.inner.tail, ring.inner.head)

(***************************************************************************)
(* QueueWorker over an MpmcQueue.  ring holds the queue (inner, stats) and *)
(* the worker: its running flag, its thread (none, running or finished),   *)
(* the thread's position in its loop, its batch vector and its counters.   *)
(* The application thread pushes, starts and stops; its position is        *)
(* rt[1].pc.                                                               *)
(***************************************************************************)
\* QueueWorker::new
WorkerNew ==
    [running |-> FALSE, thread |-> "none", pc |-> "none", batch |-> <<>>,
     processed |-> 0, errors |-> 0]

\* MpmcQueue::push, run to its return
QueuePush(q, value) ==
    LET out == MpmcPush(q.inner, value) IN
    IF out.res = "Ok"
    THEN [res |-> "Ok",
          queue |-> [q EXCEPT
              !.inner = out.ring,
              !.stats.enqueued = FetchAdd(@, 1),
              !.stats.current_size = FetchAdd(@, 1),
              !.stats.peak_size = Max(@, FetchAdd(q.stats.current_size, 1))]]
    ELSE [res |-> "Err", queue |-> [q EXCEPT !.stats.drops = FetchAdd(@, 1)]]

\* MpmcQueue::pop_batch(items) with a slice of n items, run to its return
QueuePopBatch(q, n) ==
    {IF out.res = "Ok"
     THEN [res |-> "Ok", count |-> out.count, values |-> out.values,
           queue |-> [q EXCEPT
               !.inner = out.ring,
               !.stats.dequeued = FetchAdd(@, out.count),
               !.stats.current_size = FetchSub(@, out.count)]]
     ELSE IF out.res = "Empty"
     THEN [res |-> "Err", count |-> 0, values |-> <<>>,
           queue |-> [q EXCEPT !.stats.errors = FetchAdd(@, 1)]]
     ELSE [res |-> "panic", count |-> 0, values |-> <<>>,
           queue |-> [q EXCEPT !.inner = out.ring]]
     : out \in MpmcPopBatch(q.inner, n)}

WorkerInit ==
    /\ PoolIdle
    /\ UdpIdle
    /\ MmIdle
    /\ ObsIdle
    /\ RxqIdle
    /\ MbIdle
    /\ kind = "mpmc"
    /\ ring = [inner |-> RingNew, stats |-> QueueStatsNew, worker |-> WorkerNew]
    /\ rt = RtIdle
    /\ pushed = EmptyBag
    /\ popped = EmptyBag
    /\ fifo = <<>>
    /\ lastRing = NoRingOp

AppReady ==
    /\ rt[1].pc = "idle"
    /\ rt[1].calls < MaxWorkerCalls

\* The application pushes an mbuf into the worker's queue.
AppPush ==
    /\ AppReady
    /\ \E value \in SeqValues :
        LET out == QueuePush(ring, value) IN
        /\ ring' = out.queue
        /\ fifo' = IF out.res = "Ok" THEN Append(fifo, value) ELSE fifo
        /\ lastRing' = [op |-> "push", res |-> out.res, value |-> value,
                        expected |-> 0]
    /\ rt' = [rt EXCEPT ![1].calls = @ + 1]
    /\ UNCHANGED <<kind, pushed, popped, nonRingVars>>

\* QueueWorker::start: returns at once when running is set; otherwise sets
\* it and spawns the thread, whose batch is Vec::with_capacity(batch_size)
WorkerStart ==
    /\ AppReady
    /\ IF ring.worker.running
       THEN ring' = ring
       ELSE ring' = [ring EXCEPT !.worker.running = TRUE,
                                 !.worker.thread = "running",
                                 !.worker.pc = "while",
                                 !.worker.batch = <<>>]
    /\ lastRing' = [op |-> "start", res |-> "Ok", value |-> 0, expected |-> 0]
    /\ rt' = [rt EXCEPT ![1].calls = @ + 1]
    /\ UNCHANGED <<kind, pushed, popped, fifo, nonRingVars>>

\* QueueWorker::stop: self.running.store(false, Relaxed)
WorkerStopStore ==
    /\ AppReady
    /\ ring' = [ring EXCEPT !.worker.running = FALSE]
    /\ rt' = [rt EXCEPT ![1].pc = "join", ![1].calls = @ + 1]
    /\ UNCHANGED <<kind, pushed, popped, fifo, lastRing, nonRingVars>>

\* QueueWorker::stop: thread_handle.take() and handle.join(), which returns
\* when the thread has finished
WorkerStopJoin ==
    /\ rt[1].pc = "join"
    /\ ring.worker.thread # "running"
    /\ ring' = [ring EXCEPT !.worker.thread = "none"]
    /\ lastRing' = [op |-> "stop", res |-> "Ok", value |-> 0, expected |-> 0]
    /\ rt' = [rt EXCEPT ![1].pc = "idle"]
    /\ UNCHANGED <<kind, pushed, popped, fifo, nonRingVars>>

\* worker thread: while running.load(Relaxed)
WorkerWhile ==
    /\ ring.worker.thread = "running"
    /\ ring.worker.pc = "while"
    /\ ring' = [ring EXCEPT
                  !.worker.pc = IF ring.worker.running THEN "pop" ELSE "exit"]
    /\ UNCHANGED <<kind, rt, pushed, popped, fifo, lastRing, nonRingVars>>

\* worker thread: batch.clear(); queue.pop_batch(&mut batch), the slice
\* being the batch.len() items of the vector; for &mbuf in &batch the
\* processor is called and processed or errors is incremented; otherwise
\* thread::sleep
WorkerPopBatch ==
    /\ ring.worker.thread = "running"
    /\ ring.worker.pc = "pop"
    /\ LET cleared == SubSeq(ring.worker.batch, 1, 0) IN
       \E out \in QueuePopBatch(ring, Len(cleared)) :
       \E ok \in 0..Len(cleared) :
        /\ out.res # "panic"
        /\ ring' = [out.queue EXCEPT
                      !.worker.pc = "while",
                      !.worker.batch = cleared,
                      !.worker.processed =
                          IF out.res = "Ok" /\ out.count > 0
                          THEN FetchAdd(@, ok) ELSE @,
                      !.worker.errors =
                          IF out.res = "Ok" /\ out.count > 0
                          THEN FetchAdd(@, Len(cleared) - ok) ELSE @]
        /\ fifo' = SubSeq(fifo, out.count + 1, Len(fifo))
    /\ UNCHANGED <<kind, rt, pushed, popped, lastRing, nonRingVars>>

\* worker thread: stats.runtime.store(..); Ok(())
WorkerExit ==
    /\ ring.worker.thread = "running"
    /\ ring.worker.pc = "exit"
    /\ ring' = [ring EXCEPT !.worker.thread = "finished", !.worker.pc = "none"]
    /\ UNCHANGED <<kind, rt, pushed, popped, fifo, lastRing, nonRingVars>>

WorkerThread == WorkerWhile \/ WorkerPopBatch \/ WorkerExit

WorkerNext ==
    \/ AppPush
    \/ WorkerStart
    \/ WorkerStopStore
    \/ WorkerStopJoin
    \/ WorkerWhile
    \/ WorkerPopBatch
    \/ WorkerExit

SpecWorker == WorkerInit /\ [][WorkerNext]_vars

\* The spawned thread is scheduled again and again: its sleep ends and none
\* of its steps waits for another thread.
SpecWorkerLive == SpecWorker /\ WF_vars(WorkerThread)

\* C40: while the worker is running every mbuf pushed into its queue is
\* eventually popped by the worker thread (the queue is drained or the
\* worker has been told to stop), and once stop() has returned the worker
\* thread has terminated.
C40_WorkerDrainsQueue ==
    /\ (ring.worker.running /\ RingLen(ring.inner) > 0)
           ~> (RingLen(ring.inner) = 0 \/ ~ring.worker.running)
    /\ [](lastRing.op = "stop" => ring.worker.thread # "running")

=============================================================================
